---- MODULE Spec2Model ----
(***************************************************************************)
(* Model of the layout engine of @crafter/flow                             *)
(* (packages/flow/src/core/hierarchy-graph.ts, class HierarchyGraph).      *)
(*                                                                         *)
(* Numbers.  The source computes with JavaScript numbers.  The model uses  *)
(* exact fixed-point arithmetic: every length is an integer count of       *)
(* 1/Scale units, and every division goes through ExactDiv, which has no   *)
(* value when the quotient is not exact, so a truncation can never go      *)
(* unnoticed (TLC stops with an error instead).  The fractional tuning     *)
(* factors (compression 0.4, siblingFactor 0.833) are kept as fractions    *)
(* <<numerator, denominator>>.                                             *)
(*                                                                         *)
(* Optional values (a field that may be undefined in the source) are       *)
(* sequences of length 0 (undefined) or 1 (defined).                       *)
(***************************************************************************)
EXTENDS Integers, Sequences, FiniteSets, TLC

(***************************************************************************)
(* Bounds of the model.                                                    *)
(***************************************************************************)
MaxNodes == 4

Ids == 1..MaxNodes

(***************************************************************************)
(* Fixed-point helpers.                                                    *)
(***************************************************************************)
\* 1/Scale is the unit of length: 2^5 * 5^3 parts, enough for the halvings
\* and the nested compression factors of the trees within the bounds
Scale == 4 * 1000

Num(n) == n * Scale

ExactDiv(a, b) == CHOOSE q \in {a \div b} : q * b = a

Half(a) == ExactDiv(a, 2)

MulFrac(a, f) == ExactDiv(a * f[1], f[2])

Abs(a) == IF a < 0 THEN -a ELSE a

Max2(a, b) == IF a >= b THEN a ELSE b

RECURSIVE SumTo(_, _)
SumTo(s, n) == IF n = 0 THEN 0 ELSE SumTo(s, n - 1) + s[n]

\* s.reduce((sum, w) => sum + w, 0)
SumSeq(s) == SumTo(s, Len(s))

\* Math.max(...s) for a non-empty s
MaxSeq(s) == CHOOSE m \in {s[k] : k \in 1..Len(s)} : \A k \in 1..Len(s) : s[k] <= m

RECURSIVE ConcatTo(_, _)
ConcatTo(ss, n) == IF n = 0 THEN <<>> ELSE ConcatTo(ss, n - 1) \o ss[n]

\* the concatenation of a sequence of sequences, in order
Concat(ss) == ConcatTo(ss, Len(ss))

Undefined == <<>>

Some(v) == <<v>>

\* opt ?? default
Nullish(opt, default) == IF Len(opt) = 0 THEN default ELSE opt[1]

(***************************************************************************)
(* HierarchyGraph: constructor and settings.                               *)
(***************************************************************************)
DefaultDirection == "horizontal"

DefaultIndent == Num(60)

DefaultVerticalShift == Num(-25)

DefaultCompression == <<4, 10>>

DefaultSiblingFactor == <<833, 1000>>

\* constructor(config): every optional field is defaulted on its own
Constructor(config) ==
  [gap |-> config.gap,
   direction |-> Nullish(config.direction, DefaultDirection),
   tuning |-> [indent |-> Nullish(config.indent, DefaultIndent),
               verticalShift |-> Nullish(config.verticalShift, DefaultVerticalShift),
               compression |-> Nullish(config.compression, DefaultCompression),
               siblingFactor |-> Nullish(config.siblingFactor, DefaultSiblingFactor)]]

\* this.sizes.has(id)
Has(sz, id) == id \in DOMAIN sz

\* mutant: an id that has an entry keeps it
MapSet_KeepsFirst(sz, id, size) ==
  [k \in (DOMAIN sz) \cup {id} |-> IF k \in DOMAIN sz THEN sz[k] ELSE size]

\* this.sizes.set(id, size)
MapSet(sz, id, size) ==
  [k \in (DOMAIN sz) \cup {id} |-> IF k = id THEN size ELSE sz[k]]

\* node.children is defined and not empty
HasKids(node) == node.hasChildren /\ Len(node.children) > 0

(***************************************************************************)
(* traverse, isReady, getSubtreeIds.                                       *)
(***************************************************************************)
RECURSIVE traverse(_)
\* mutant: the children are listed but not their descendants
traverse_Shallow(root) ==
  <<root>> \o (IF root.hasChildren THEN root.children ELSE <<>>)

\* mutant: the subtrees of the children are listed from the last child to
\* the first
traverse_LastChildFirst(root) ==
  <<root>> \o
  (IF root.hasChildren
     THEN Concat([k \in 1..Len(root.children) |->
                    traverse(root.children[Len(root.children) + 1 - k])])
     ELSE <<>>)

traverse(root) ==
  <<root>> \o
  (IF root.hasChildren
     THEN Concat([k \in 1..Len(root.children) |-> traverse(root.children[k])])
     ELSE <<>>)

RECURSIVE getSubtreeIds(_)
getSubtreeIds(node) ==
  <<node.id>> \o
  (IF node.hasChildren
     THEN Concat([k \in 1..Len(node.children) |-> getSubtreeIds(node.children[k])])
     ELSE <<>>)

isReady(sz, root) ==
  LET all == traverse(root)
  IN \A k \in 1..Len(all) : Has(sz, all[k].id)

\* mutant: the node's own direction field is ignored
resolveDirection_ConfigOnly(st, node) == st.direction

resolveDirection(st, node) == Nullish(node.direction, st.direction)

(***************************************************************************)
(* Subtree measurer.                                                       *)
(***************************************************************************)
RECURSIVE measureWidth(_, _, _)
\* mutant: a stacked subtree reports its widest child uncompressed
measureWidth_NoCompression(st, sz, node) ==
  LET size == sz[node.id]
  IN IF ~HasKids(node) THEN size.width
     ELSE LET dir == resolveDirection(st, node)
              childWidths == [k \in 1..Len(node.children) |->
                                measureWidth(st, sz, node.children[k])]
          IN IF dir = "horizontal"
               THEN Max2(size.width,
                         SumSeq(childWidths) + (Len(node.children) - 1) * st.gap.x)
               ELSE size.width + st.gap.x + MaxSeq(childWidths)

\* mutant: a spread subtree is as wide as its widest child
measureWidth_WidestChild(st, sz, node) ==
  LET size == sz[node.id]
  IN IF ~HasKids(node) THEN size.width
     ELSE LET dir == resolveDirection(st, node)
              childWidths == [k \in 1..Len(node.children) |->
                                measureWidth(st, sz, node.children[k])]
          IN IF dir = "horizontal"
               THEN Max2(size.width, MaxSeq(childWidths))
               ELSE LET maxChild == MaxSeq(childWidths)
                    IN size.width + st.gap.x + MulFrac(maxChild, st.tuning.compression)

measureWidth(st, sz, node) ==
  LET size == sz[node.id]
  IN IF ~HasKids(node) THEN size.width
     ELSE LET dir == resolveDirection(st, node)
              childWidths == [k \in 1..Len(node.children) |->
                                measureWidth(st, sz, node.children[k])]
          IN IF dir = "horizontal"
               THEN LET totalChild == SumSeq(childWidths)
                        gaps == (Len(node.children) - 1) * st.gap.x
                    IN Max2(size.width, totalChild + gaps)
               ELSE LET maxChild == MaxSeq(childWidths)
                    IN size.width + st.gap.x + MulFrac(maxChild, st.tuning.compression)

RECURSIVE measureHeight(_, _, _)
\* mutant: a stacked subtree counts one gap per child
measureHeight_GapPerChild(st, sz, node) ==
  LET size == sz[node.id]
  IN IF ~HasKids(node) THEN size.height
     ELSE LET dir == resolveDirection(st, node)
              childHeights == [k \in 1..Len(node.children) |->
                                 measureHeight(st, sz, node.children[k])]
          IN IF dir = "vertical"
               THEN Max2(size.height,
                         SumSeq(childHeights) + Len(node.children) * st.gap.y)
               ELSE size.height + st.gap.y + MaxSeq(childHeights)

measureHeight(st, sz, node) ==
  LET size == sz[node.id]
  IN IF ~HasKids(node) THEN size.height
     ELSE LET dir == resolveDirection(st, node)
              childHeights == [k \in 1..Len(node.children) |->
                                 measureHeight(st, sz, node.children[k])]
          IN IF dir = "vertical"
               THEN LET totalChild == SumSeq(childHeights)
                        gaps == (Len(node.children) - 1) * st.gap.y
                    IN Max2(size.height, totalChild + gaps)
               ELSE LET maxChild == MaxSeq(childHeights)
                    IN size.height + st.gap.y + maxChild

(***************************************************************************)
(* Node placer.  idx is the 0-based index of the source; widths and        *)
(* heights are 1-based sequences, so widths[i] of the source is            *)
(* widths[i + 1] here.                                                     *)
(***************************************************************************)
RECURSIVE SpreadLoop(_, _, _, _, _)
SpreadLoop(st, x, i, idx, widths) ==
  IF i >= idx THEN x
  ELSE SpreadLoop(st, x + widths[i + 1] + st.gap.x, i + 1, idx, widths)

\* mutant: one gap too many in the full width
computeSpreadX_ExtraGap(st, parentX, idx, widths) ==
  LET count == Len(widths)
  IN IF count = 1 THEN parentX
     ELSE LET totalWidth == SumSeq(widths)
              totalGaps == count * st.gap.x
              fullWidth == totalWidth + totalGaps
              x0 == parentX - Half(fullWidth)
              x1 == SpreadLoop(st, x0, 0, idx, widths)
          IN x1 + Half(widths[idx + 1])

computeSpreadX(st, parentX, idx, widths) ==
  LET count == Len(widths)
  IN IF count = 1 THEN parentX
     ELSE LET totalWidth == SumSeq(widths)
              totalGaps == (count - 1) * st.gap.x
              fullWidth == totalWidth + totalGaps
              x0 == parentX - Half(fullWidth)
              x1 == SpreadLoop(st, x0, 0, idx, widths)
          IN x1 + Half(widths[idx + 1])

RECURSIVE StackLoop(_, _, _, _, _)
\* mutant: the raw gap, not scaled by the sibling factor
StackLoop_RawGap(st, y, i, idx, heights) ==
  IF i >= idx THEN y
  ELSE StackLoop(st,
                 y + Half(heights[i + 1]) + st.gap.y + Half(heights[i + 2]),
                 i + 1, idx, heights)

StackLoop(st, y, i, idx, heights) ==
  IF i >= idx THEN y
  ELSE StackLoop(st,
                 y + Half(heights[i + 1])
                   + MulFrac(st.gap.y, st.tuning.siblingFactor)
                   + Half(heights[i + 2]),
                 i + 1, idx, heights)

computeStackY(st, startY, idx, heights) ==
  StackLoop(st, startY + Half(heights[1]), 0, idx, heights)

\* the anchor handed to child idx of a parent that stacks its children
\* mutant: the indent is taken from the parent's centre, not its left edge
verticalAnchor_FromCentre(st, pos, nodeSize, childSize, idx, heights) ==
  LET cx == pos.x
      cy == computeStackY(st, pos.y + Half(nodeSize.height) + st.gap.y, idx, heights)
  IN [x |-> cx + Half(childSize.width) + st.tuning.indent,
      y |-> cy + st.tuning.verticalShift]

verticalAnchor(st, pos, nodeSize, childSize, idx, heights) ==
  LET cx == pos.x - Half(nodeSize.width)
      cy == computeStackY(st, pos.y + Half(nodeSize.height) + st.gap.y, idx, heights)
  IN [x |-> cx + Half(childSize.width) + st.tuning.indent,
      y |-> cy + st.tuning.verticalShift]

\* the anchor handed to child idx of a parent that spreads its children
horizontalAnchor(st, pos, nodeSize, childSize, idx, widths) ==
  LET cx == computeSpreadX(st, pos.x, idx, widths)
      cy == pos.y + Half(nodeSize.height) + st.gap.y
  IN [x |-> cx, y |-> cy + Half(childSize.height)]

RECURSIVE placeNodes(_, _, _, _, _)
placeNodes(st, sz, node, depth, anchor) ==
  LET nodeSize == sz[node.id]
      pos == IF depth = 0 THEN [x |-> 0, y |-> 0] ELSE anchor
      self == <<[data |-> node, position |-> pos, depth |-> depth]>>
  IN IF ~HasKids(node) THEN self
     ELSE
       LET flowDir == resolveDirection(st, node)
           n == Len(node.children)
       IN IF flowDir = "vertical"
            THEN
              LET heights == [k \in 1..n |-> measureHeight(st, sz, node.children[k])]
                  childPlaced(k) ==
                    LET child == node.children[k]
                        childSize == sz[child.id]
                    IN placeNodes(st, sz, child, depth + 1,
                                  verticalAnchor(st, pos, nodeSize, childSize,
                                                 k - 1, heights))
              IN self \o Concat([k \in 1..n |-> childPlaced(k)])
            ELSE
              LET widths == [k \in 1..n |-> measureWidth(st, sz, node.children[k])]
                  childPlaced(k) ==
                    LET child == node.children[k]
                        childSize == sz[child.id]
                    IN placeNodes(st, sz, child, depth + 1,
                                  horizontalAnchor(st, pos, nodeSize, childSize,
                                                   k - 1, widths))
              IN self \o Concat([k \in 1..n |-> childPlaced(k)])

\* The invocations of the measurer, in the order they are made: the ids of
\* the nodes measureWidth (measureHeight) is invoked on, from the invocation
\* on node to its return.  Either function invokes itself on every child of
\* a node that has children, whatever the direction.
RECURSIVE measureWidthCalls(_)
measureWidthCalls(node) ==
  <<[fn |-> "measureWidth", id |-> node.id]>> \o
  (IF ~HasKids(node) THEN <<>>
   ELSE Concat([k \in 1..Len(node.children) |-> measureWidthCalls(node.children[k])]))

RECURSIVE measureHeightCalls(_)
measureHeightCalls(node) ==
  <<[fn |-> "measureHeight", id |-> node.id]>> \o
  (IF ~HasKids(node) THEN <<>>
   ELSE Concat([k \in 1..Len(node.children) |-> measureHeightCalls(node.children[k])]))

\* the invocations of the measurer made from placeNodes(node, ...) on: the
\* children are measured first, then each child is placed
RECURSIVE placeNodesCalls(_, _)
placeNodesCalls(st, node) ==
  IF ~HasKids(node) THEN <<>>
  ELSE (IF resolveDirection(st, node) = "vertical"
          THEN Concat([k \in 1..Len(node.children) |->
                         measureHeightCalls(node.children[k])])
          ELSE Concat([k \in 1..Len(node.children) |->
                         measureWidthCalls(node.children[k])]))
       \o Concat([k \in 1..Len(node.children) |->
                    placeNodesCalls(st, node.children[k])])

\* the ensure(...) calls of placeNodes, measureWidth and measureHeight: each
\* asks for the size of the node it is given and of every child it visits
RECURSIVE placeNodesThrows(_, _)
placeNodesThrows(sz, node) ==
  \/ ~Has(sz, node.id)
  \/ /\ HasKids(node)
     /\ \E k \in 1..Len(node.children) :
          \/ ~isReady(sz, node.children[k])
          \/ ~Has(sz, node.children[k].id)
          \/ placeNodesThrows(sz, node.children[k])

(***************************************************************************)
(* Edge router.                                                            *)
(***************************************************************************)
getBounds(pos, size) ==
  [left |-> pos.x - Half(size.width),
   right |-> pos.x + Half(size.width),
   top |-> pos.y - Half(size.height),
   bottom |-> pos.y + Half(size.height)]

\* mutant: below the parent the crossbar lies halfway between the two centres
computeEdgePath_MidBetweenCentres(srcPos, srcBounds, tgtPos, tgtBounds, dir) ==
  LET dx == tgtPos.x - srcPos.x
      dy == tgtPos.y - srcPos.y
  IN IF Abs(dy) > MulFrac(Abs(dx), <<1, 2>>) /\ dy > 0
       THEN LET midY == srcPos.y + Half(tgtPos.y - srcPos.y)
            IN << [x |-> srcPos.x, y |-> srcBounds.bottom],
                  [x |-> srcPos.x, y |-> midY],
                  [x |-> tgtPos.x, y |-> midY],
                  [x |-> tgtPos.x, y |-> tgtBounds.top] >>
     ELSE IF Abs(dy) > MulFrac(Abs(dx), <<1, 2>>) /\ dy < 0
       THEN LET midY == srcBounds.top + Half(tgtBounds.bottom - srcBounds.top)
            IN << [x |-> srcPos.x, y |-> srcBounds.top],
                  [x |-> srcPos.x, y |-> midY],
                  [x |-> tgtPos.x, y |-> midY],
                  [x |-> tgtPos.x, y |-> tgtBounds.bottom] >>
     ELSE IF dx > 0
       THEN LET midX == srcBounds.right + Half(tgtBounds.left - srcBounds.right)
            IN << [x |-> srcBounds.right, y |-> srcPos.y],
                  [x |-> midX, y |-> srcPos.y],
                  [x |-> midX, y |-> tgtPos.y],
                  [x |-> tgtBounds.left, y |-> tgtPos.y] >>
     ELSE LET midX == srcBounds.left + Half(tgtBounds.right - srcBounds.left)
          IN << [x |-> srcBounds.left, y |-> srcPos.y],
                [x |-> midX, y |-> srcPos.y],
                [x |-> midX, y |-> tgtPos.y],
                [x |-> tgtBounds.right, y |-> tgtPos.y] >>

\* mutant: a pair with |dy| = |dx| / 2 counts as primarily vertical
computeEdgePath_BoundaryVertical(srcPos, srcBounds, tgtPos, tgtBounds, dir) ==
  LET dx == tgtPos.x - srcPos.x
      dy == tgtPos.y - srcPos.y
  IN IF Abs(dy) >= MulFrac(Abs(dx), <<1, 2>>) /\ dy > 0
       THEN LET midY == srcBounds.bottom + Half(tgtBounds.top - srcBounds.bottom)
            IN << [x |-> srcPos.x, y |-> srcBounds.bottom],
                  [x |-> srcPos.x, y |-> midY],
                  [x |-> tgtPos.x, y |-> midY],
                  [x |-> tgtPos.x, y |-> tgtBounds.top] >>
     ELSE IF Abs(dy) >= MulFrac(Abs(dx), <<1, 2>>) /\ dy < 0
       THEN LET midY == srcBounds.top + Half(tgtBounds.bottom - srcBounds.top)
            IN << [x |-> srcPos.x, y |-> srcBounds.top],
                  [x |-> srcPos.x, y |-> midY],
                  [x |-> tgtPos.x, y |-> midY],
                  [x |-> tgtPos.x, y |-> tgtBounds.bottom] >>
     ELSE IF dx > 0
       THEN LET midX == srcBounds.right + Half(tgtBounds.left - srcBounds.right)
            IN << [x |-> srcBounds.right, y |-> srcPos.y],
                  [x |-> midX, y |-> srcPos.y],
                  [x |-> midX, y |-> tgtPos.y],
                  [x |-> tgtBounds.left, y |-> tgtPos.y] >>
     ELSE LET midX == srcBounds.left + Half(tgtBounds.right - srcBounds.left)
          IN << [x |-> srcBounds.left, y |-> srcPos.y],
                [x |-> midX, y |-> srcPos.y],
                [x |-> midX, y |-> tgtPos.y],
                [x |-> tgtBounds.right, y |-> tgtPos.y] >>

\* mutant: a child above the parent is routed from the parent's bottom to the child's top
computeEdgePath_AboveLikeBelow(srcPos, srcBounds, tgtPos, tgtBounds, dir) ==
  LET dx == tgtPos.x - srcPos.x
      dy == tgtPos.y - srcPos.y
  IN IF Abs(dy) > MulFrac(Abs(dx), <<1, 2>>) /\ dy > 0
       THEN LET midY == srcBounds.bottom + Half(tgtBounds.top - srcBounds.bottom)
            IN << [x |-> srcPos.x, y |-> srcBounds.bottom],
                  [x |-> srcPos.x, y |-> midY],
                  [x |-> tgtPos.x, y |-> midY],
                  [x |-> tgtPos.x, y |-> tgtBounds.top] >>
     ELSE IF Abs(dy) > MulFrac(Abs(dx), <<1, 2>>) /\ dy < 0
       THEN LET midY == srcBounds.bottom + Half(tgtBounds.top - srcBounds.bottom)
            IN << [x |-> srcPos.x, y |-> srcBounds.bottom],
                  [x |-> srcPos.x, y |-> midY],
                  [x |-> tgtPos.x, y |-> midY],
                  [x |-> tgtPos.x, y |-> tgtBounds.top] >>
     ELSE IF dx > 0
       THEN LET midX == srcBounds.right + Half(tgtBounds.left - srcBounds.right)
            IN << [x |-> srcBounds.right, y |-> srcPos.y],
                  [x |-> midX, y |-> srcPos.y],
                  [x |-> midX, y |-> tgtPos.y],
                  [x |-> tgtBounds.left, y |-> tgtPos.y] >>
     ELSE LET midX == srcBounds.left + Half(tgtBounds.right - srcBounds.left)
          IN << [x |-> srcBounds.left, y |-> srcPos.y],
                [x |-> midX, y |-> srcPos.y],
                [x |-> midX, y |-> tgtPos.y],
                [x |-> tgtBounds.right, y |-> tgtPos.y] >>

\* mutant: under a vertical parent the edge runs along a spine at the parent's left side
computeEdgePath_SpineWhenVertical(srcPos, srcBounds, tgtPos, tgtBounds, dir) ==
  LET dx == tgtPos.x - srcPos.x
      dy == tgtPos.y - srcPos.y
  IN IF dir = "vertical"
       THEN << [x |-> srcBounds.left, y |-> srcPos.y],
               [x |-> srcBounds.left, y |-> tgtPos.y],
               [x |-> tgtBounds.left, y |-> tgtPos.y] >>
     ELSE IF Abs(dy) > MulFrac(Abs(dx), <<1, 2>>) /\ dy > 0
       THEN LET midY == srcBounds.bottom + Half(tgtBounds.top - srcBounds.bottom)
            IN << [x |-> srcPos.x, y |-> srcBounds.bottom],
                  [x |-> srcPos.x, y |-> midY],
                  [x |-> tgtPos.x, y |-> midY],
                  [x |-> tgtPos.x, y |-> tgtBounds.top] >>
     ELSE IF Abs(dy) > MulFrac(Abs(dx), <<1, 2>>) /\ dy < 0
       THEN LET midY == srcBounds.top + Half(tgtBounds.bottom - srcBounds.top)
            IN << [x |-> srcPos.x, y |-> srcBounds.top],
                  [x |-> srcPos.x, y |-> midY],
                  [x |-> tgtPos.x, y |-> midY],
                  [x |-> tgtPos.x, y |-> tgtBounds.bottom] >>
     ELSE IF dx > 0
       THEN LET midX == srcBounds.right + Half(tgtBounds.left - srcBounds.right)
            IN << [x |-> srcBounds.right, y |-> srcPos.y],
                  [x |-> midX, y |-> srcPos.y],
                  [x |-> midX, y |-> tgtPos.y],
                  [x |-> tgtBounds.left, y |-> tgtPos.y] >>
     ELSE LET midX == srcBounds.left + Half(tgtBounds.right - srcBounds.left)
          IN << [x |-> srcBounds.left, y |-> srcPos.y],
                [x |-> midX, y |-> srcPos.y],
                [x |-> midX, y |-> tgtPos.y],
                [x |-> tgtBounds.right, y |-> tgtPos.y] >>

computeEdgePath(srcPos, srcBounds, tgtPos, tgtBounds, dir) ==
  LET dx == tgtPos.x - srcPos.x
      dy == tgtPos.y - srcPos.y
  IN IF Abs(dy) > MulFrac(Abs(dx), <<1, 2>>) /\ dy > 0
       THEN LET midY == srcBounds.bottom + Half(tgtBounds.top - srcBounds.bottom)
            IN << [x |-> srcPos.x, y |-> srcBounds.bottom],
                  [x |-> srcPos.x, y |-> midY],
                  [x |-> tgtPos.x, y |-> midY],
                  [x |-> tgtPos.x, y |-> tgtBounds.top] >>
     ELSE IF Abs(dy) > MulFrac(Abs(dx), <<1, 2>>) /\ dy < 0
       THEN LET midY == srcBounds.top + Half(tgtBounds.bottom - srcBounds.top)
            IN << [x |-> srcPos.x, y |-> srcBounds.top],
                  [x |-> srcPos.x, y |-> midY],
                  [x |-> tgtPos.x, y |-> midY],
                  [x |-> tgtPos.x, y |-> tgtBounds.bottom] >>
     ELSE IF dx > 0
       THEN LET midX == srcBounds.right + Half(tgtBounds.left - srcBounds.right)
            IN << [x |-> srcBounds.right, y |-> srcPos.y],
                  [x |-> midX, y |-> srcPos.y],
                  [x |-> midX, y |-> tgtPos.y],
                  [x |-> tgtBounds.left, y |-> tgtPos.y] >>
     ELSE LET midX == srcBounds.left + Half(tgtBounds.right - srcBounds.left)
          IN << [x |-> srcBounds.left, y |-> srcPos.y],
                [x |-> midX, y |-> srcPos.y],
                [x |-> midX, y |-> tgtPos.y],
                [x |-> tgtBounds.right, y |-> tgtPos.y] >>

\* new Map(placed.map((p) => [p.data.id, p])): the last entry of an id wins
PositionMapHas(placed, id) == \E k \in 1..Len(placed) : placed[k].data.id = id

PositionMapGet(placed, id) ==
  LET last == CHOOSE k \in 1..Len(placed) :
                /\ placed[k].data.id = id
                /\ \A j \in (k + 1)..Len(placed) : placed[j].data.id # id
  IN placed[last]

\* the ensure(...) calls of generateEdges
generateEdgesThrows(sz, placed) ==
  \E k \in 1..Len(placed) :
    /\ placed[k].data.hasChildren
    /\ \/ ~Has(sz, placed[k].data.id)
       \/ \E c \in 1..Len(placed[k].data.children) :
            \/ ~PositionMapHas(placed, placed[k].data.children[c].id)
            \/ ~Has(sz, placed[k].data.children[c].id)

\* the edges pushed while the outer loop is at the placed node p
edgesOf(st, sz, placed, p) ==
  IF ~p.data.hasChildren THEN <<>>
  ELSE LET parentSize == sz[p.data.id]
           bounds == getBounds(p.position, parentSize)
           dir == resolveDirection(st, p.data)
       IN [c \in 1..Len(p.data.children) |->
             LET child == p.data.children[c]
                 childPlaced == PositionMapGet(placed, child.id)
                 childSize == sz[child.id]
                 childBounds == getBounds(childPlaced.position, childSize)
                 waypoints == computeEdgePath(p.position, bounds,
                                              childPlaced.position, childBounds, dir)
             IN [source |-> p.data, target |-> childPlaced.data,
                 waypoints |-> waypoints]]

\* mutant: the parents are visited level by level, not in the order placed
generateEdges_LevelOrder(st, sz, placed) ==
  Concat([d \in 1..Len(placed) |->
            Concat([k \in 1..Len(placed) |->
                      IF placed[k].depth = d - 1
                        THEN edgesOf(st, sz, placed, placed[k])
                        ELSE <<>>])])

generateEdges(st, sz, placed) ==
  Concat([k \in 1..Len(placed) |-> edgesOf(st, sz, placed, placed[k])])

(***************************************************************************)
(* compute: the value returned, or the error thrown.                       *)
(***************************************************************************)
Thrown(text, n) == [kind |-> "error", message |-> text, have |-> n]

\* mutant: the root is placed one level down
compute_DepthOne(st, sz, root) ==
  IF ~isReady(sz, root)
    THEN Thrown("Missing sizes for some nodes. Have", Cardinality(DOMAIN sz))
  ELSE IF placeNodesThrows(sz, root)
    THEN Thrown("Missing size for node", 0)
  ELSE LET placed == placeNodes(st, sz, root, 1, [x |-> 0, y |-> 0])
       IN IF generateEdgesThrows(sz, placed)
            THEN Thrown("Edge generation failed", 0)
            ELSE [kind |-> "result", nodes |-> placed,
                  edges |-> generateEdges(st, sz, placed)]

\* mutant: an empty layout instead of an error while sizes are missing
compute_EmptyWhenNotReady(st, sz, root) ==
  IF ~isReady(sz, root)
    THEN [kind |-> "result", nodes |-> <<>>, edges |-> <<>>]
  ELSE LET placed == placeNodes(st, sz, root, 0, [x |-> 0, y |-> 0])
       IN [kind |-> "result", nodes |-> placed,
           edges |-> generateEdges(st, sz, placed)]

\* mutant: the message gives the number of nodes of the tree without a size
compute_NamesShortfall(st, sz, root) ==
  IF ~isReady(sz, root)
    THEN Thrown("Missing sizes for some nodes. Have",
                Cardinality({k \in 1..Len(traverse(root)) : ~Has(sz, traverse(root)[k].id)}))
  ELSE LET placed == placeNodes(st, sz, root, 0, [x |-> 0, y |-> 0])
       IN [kind |-> "result", nodes |-> placed,
           edges |-> generateEdges(st, sz, placed)]

compute(st, sz, root) ==
  IF ~isReady(sz, root)
    THEN Thrown("Missing sizes for some nodes. Have", Cardinality(DOMAIN sz))
  ELSE IF placeNodesThrows(sz, root)
    THEN Thrown("Missing size for node", 0)
  ELSE LET placed == placeNodes(st, sz, root, 0, [x |-> 0, y |-> 0])
       IN IF generateEdgesThrows(sz, placed)
            THEN Thrown("Edge generation failed", 0)
            ELSE [kind |-> "result", nodes |-> placed,
                  edges |-> generateEdges(st, sz, placed)]

(***************************************************************************)
(* regenerateEdges: the edges of a list of placed nodes whose positions    *)
(* the caller may have changed, or the error thrown.                       *)
(***************************************************************************)
\* mutant: a failed lookup ends the generation with no edges and no error
regenerateEdges_EmptyOnFailure(st, sz, placedWithOverrides) ==
  IF generateEdgesThrows(sz, placedWithOverrides)
    THEN [kind |-> "edges", edges |-> <<>>]
    ELSE [kind |-> "edges", edges |-> generateEdges(st, sz, placedWithOverrides)]

\* mutant: the nodes are placed again, the positions of the list ignored
regenerateEdges_Replaces(st, sz, placedWithOverrides) ==
  IF generateEdgesThrows(sz, placedWithOverrides)
    THEN Thrown("Edge generation failed", 0)
    ELSE [kind |-> "edges",
          edges |-> IF Len(placedWithOverrides) = 0 THEN <<>>
                    ELSE generateEdges(st, sz,
                           placeNodes(st, sz, placedWithOverrides[1].data, 0,
                                      [x |-> 0, y |-> 0]))]

regenerateEdges(st, sz, placedWithOverrides) ==
  IF generateEdgesThrows(sz, placedWithOverrides)
    THEN Thrown("Edge generation failed", 0)
    ELSE [kind |-> "edges", edges |-> generateEdges(st, sz, placedWithOverrides)]

(***************************************************************************)
(* The SVG path builder and the edge path builder.  A waypoint coordinate  *)
(* is a whole number of half pixels, so that half of an odd length is      *)
(* exact.  A compiled path is the sequence of its space-separated          *)
(* segments, each the command letter with the numbers that follow it; the  *)
(* empty string is the empty sequence.                                     *)
(***************************************************************************)
PathScale == 2

Px(n) == n * PathScale

BEND_RADIUS == 32

Min2(a, b) == IF a <= b THEN a ELSE b

\* Math.sqrt(dx ** 2 + dy ** 2), exact or undefined
Hypot(dx, dy) ==
  IF dy = 0 THEN Abs(dx)
  ELSE IF dx = 0 THEN Abs(dy)
  ELSE CHOOSE r \in 0..(Abs(dx) + Abs(dy)) : r * r = dx * dx + dy * dy

moveTo(point) == [cmd |-> "M", to |-> point]

lineTo(point) == [cmd |-> "L", to |-> point]

curveTo(control, to) == [cmd |-> "Q", to |-> to, control |-> control]

PathError(text) == [kind |-> "error", message |-> text]

\* what one command contributes to the compiled string
Segment(c) ==
  IF c.cmd = "Q"
    THEN [op |-> "Q", nums |-> <<c.control.x, c.control.y, c.to.x, c.to.y>>]
    ELSE [op |-> c.cmd, nums |-> <<c.to.x, c.to.y>>]

\* mutant: the first command is not looked at
compilePath_AnyFirstCommand(commands) ==
  IF Len(commands) = 0
    THEN PathError("Cannot compile empty path - at least one command required")
  ELSE [kind |-> "path", d |-> [k \in 1..Len(commands) |-> Segment(commands[k])]]

compilePath(commands) ==
  IF Len(commands) = 0
    THEN PathError("Cannot compile empty path - at least one command required")
  ELSE IF commands[1].cmd # "M"
    THEN PathError("Path must begin with MoveTo (M) command")
  ELSE [kind |-> "path", d |-> [k \in 1..Len(commands) |-> Segment(commands[k])]]

\* mutant: only a horizontal segment followed by a vertical one is a corner
isCorner_HorizontalFirst(a, b, c) ==
  LET dx1 == b.x - a.x
      dy1 == b.y - a.y
      dx2 == c.x - b.x
      dy2 == c.y - b.y
  IN dx1 # 0 /\ dy1 = 0 /\ dx2 = 0 /\ dy2 # 0

isCorner(a, b, c) ==
  LET dx1 == b.x - a.x
      dy1 == b.y - a.y
      dx2 == c.x - b.x
      dy2 == c.y - b.y
  IN \/ (dx1 # 0 /\ dy1 = 0 /\ dx2 = 0 /\ dy2 # 0)
     \/ (dx1 = 0 /\ dy1 # 0 /\ dx2 # 0 /\ dy2 = 0)

\* mutant: the two arguments of curveTo are given in the other order
roundCorner_SwappedCurve(prev, corner, next) ==
  LET dx1 == corner.x - prev.x
      dy1 == corner.y - prev.y
      dx2 == next.x - corner.x
      dy2 == next.y - corner.y
      dist1 == Hypot(dx1, dy1)
      r1 == Min2(Px(BEND_RADIUS), Half(dist1))
      t1 == <<dist1 - r1, dist1>>
      entry == [x |-> prev.x + MulFrac(dx1, t1), y |-> prev.y + MulFrac(dy1, t1)]
      dist2 == Hypot(dx2, dy2)
      r2 == Min2(Px(BEND_RADIUS), Half(dist2))
      t2 == <<r2, dist2>>
      exit == [x |-> corner.x + MulFrac(dx2, t2), y |-> corner.y + MulFrac(dy2, t2)]
  IN <<lineTo(entry), curveTo(exit, corner)>>

roundCorner(prev, corner, next) ==
  LET dx1 == corner.x - prev.x
      dy1 == corner.y - prev.y
      dx2 == next.x - corner.x
      dy2 == next.y - corner.y
      dist1 == Hypot(dx1, dy1)
      r1 == Min2(Px(BEND_RADIUS), Half(dist1))
      t1 == <<dist1 - r1, dist1>>
      entry == [x |-> prev.x + MulFrac(dx1, t1), y |-> prev.y + MulFrac(dy1, t1)]
      dist2 == Hypot(dx2, dy2)
      r2 == Min2(Px(BEND_RADIUS), Half(dist2))
      t2 == <<r2, dist2>>
      exit == [x |-> corner.x + MulFrac(dx2, t2), y |-> corner.y + MulFrac(dy2, t2)]
  IN <<lineTo(entry), curveTo(corner, exit)>>

\* the commands pushed by the loop of buildEdgePath from the index i on; the
\* index counts from 1, so curr is points[i]
RECURSIVE BuildLoop(_, _)
BuildLoop(points, i) ==
  IF i > Len(points) - 1 THEN <<>>
  ELSE LET curr == points[i]
           next == points[i + 1]
       IN IF i + 2 > Len(points)
            THEN <<lineTo(next)>> \o BuildLoop(points, i + 1)
          ELSE IF isCorner(curr, next, points[i + 2])
            THEN roundCorner(curr, next, points[i + 2]) \o BuildLoop(points, i + 1)
          ELSE <<lineTo(next)>> \o BuildLoop(points, i + 1)

buildEdgePath(points) ==
  IF Len(points) < 2 THEN [kind |-> "path", d |-> <<>>]
  ELSE IF Len(points) = 2
    THEN compilePath(<<moveTo(points[1]), lineTo(points[2])>>)
  ELSE compilePath(<<moveTo(points[1])>> \o BuildLoop(points, 1))

(***************************************************************************)
(* Inputs: the trees, sizes and configurations the calls are made with.    *)
(***************************************************************************)
RECURSIVE SortedSeq(_)
SortedSeq(S) ==
  IF S = {} THEN <<>>
  ELSE LET m == CHOOSE a \in S : \A b \in S : a <= b
       IN <<m>> \o SortedSeq(S \ {m})

Directions == {Undefined, Some("vertical"), Some("horizontal")}

\* The ordered trees of n nodes, each once: node 1 is the root, par[i] is the
\* parent of node i, and the ids follow the breadth-first order.
ParentVectors(n) ==
  {par \in [2..n -> 1..n] :
     /\ \A i \in 2..n : par[i] < i
     /\ \A i \in 2..(n - 1) : par[i] <= par[i + 1]}

\* A leaf with an even id carries an empty children list, a leaf with an odd
\* id has no children field: both forms of a leaf occur.
RECURSIVE MkNode(_, _, _, _)
MkNode(par, dir, n, i) ==
  LET kids == SortedSeq({j \in 2..n : par[j] = i})
  IN [id |-> i,
      direction |-> dir[i],
      hasChildren |-> (Len(kids) > 0) \/ (i % 2 = 0),
      children |-> [k \in 1..Len(kids) |-> MkNode(par, dir, n, kids[k])]]

\* Every node that has children takes each of the three direction values; a
\* leaf, whose direction field no code path reads for layout, has none.
DirectionsFor(par, n) ==
  {dir \in [1..n -> Directions] :
     \A i \in 1..n : (\A j \in 2..n : par[j] # i) => dir[i] = Undefined}

\* the set of the nodes of a tree
RECURSIVE TreeNodes(_)
TreeNodes(node) ==
  {node} \cup UNION {TreeNodes(node.children[k]) : k \in 1..Len(node.children)}

\* the ids of the nodes of a tree
TreeIds(node) == {n.id : n \in TreeNodes(node)}

TreesOf(n) ==
  UNION {{MkNode(par, dir, n, 1) : dir \in DirectionsFor(par, n)} :
           par \in ParentVectors(n)}

Trees == UNION {TreesOf(n) : n \in 1..MaxNodes}

Dims == {[width |-> Num(100), height |-> Num(50)],
         [width |-> Num(40), height |-> Num(80)]}

NoTuning ==
  [indent |-> Undefined, verticalShift |-> Undefined,
   compression |-> Undefined, siblingFactor |-> Undefined]

\* One configuration that leaves every optional field out, one that sets
\* every field.
Configs ==
  {[gap |-> [x |-> Num(20), y |-> Num(60)], direction |-> Undefined] @@ NoTuning,
   [gap |-> [x |-> Num(10), y |-> Num(30)], direction |-> Some("vertical"),
    indent |-> Some(Num(40)), verticalShift |-> Some(Num(-10)),
    compression |-> Some(<<1, 2>>), siblingFactor |-> Some(<<1, 1>>)]}

(***************************************************************************)
(* The state machine: one HierarchyGraph instance and its caller.          *)
(*   settings  this.settings                                               *)
(*   sizes     this.sizes, the Size Registry                               *)
(*   root      the tree the caller holds and passes to every call          *)
(*   arg       the argument of the latest call that takes a list (a list   *)
(*             of placed nodes, of waypoints or of draw commands); the     *)
(*             calls of this state machine take none                       *)
(*   ret       what the latest call returned or threw                      *)
(*   view      the state a component keeps between its event handlers      *)
(*             (HierarchyView, ZoomableCanvas, DraggableNodeContainer);    *)
(*             empty in the state machines without such a component        *)
(***************************************************************************)
VARIABLES settings, sizes, root, arg, ret, view

vars == <<settings, sizes, root, arg, ret, view>>

Init ==
  /\ settings \in {Constructor(c) : c \in Configs}
  /\ sizes = [k \in {} |-> 0]
  /\ root \in Trees
  /\ arg = <<>>
  /\ view = <<>>
  /\ ret = [kind |-> "none"]

RegisterSize(id, size) ==
  /\ sizes' = MapSet(sizes, id, size)
  /\ ret' = [kind |-> "void"]
  /\ UNCHANGED <<settings, root, arg, view>>

IsReady ==
  /\ ret' = [kind |-> "isReady", value |-> isReady(sizes, root)]
  /\ UNCHANGED <<settings, sizes, root, arg, view>>

\* mutant: the measured width of the tree is kept in the registry as the
\* size of the root
Compute_KeepsMeasuredWidth ==
  /\ ret' = compute(settings, sizes, root)
  /\ sizes' = IF ret'.kind = "result"
                THEN MapSet(sizes, root.id,
                            [sizes[root.id] EXCEPT
                               !.width = measureWidth(settings, sizes, root)])
                ELSE sizes
  /\ UNCHANGED <<settings, root, arg, view>>

Compute ==
  /\ ret' = compute(settings, sizes, root)
  /\ UNCHANGED <<settings, sizes, root, arg, view>>

Next ==
  \/ \E id \in Ids, size \in Dims : RegisterSize(id, size)
  \/ IsReady
  \/ Compute

Spec == Init /\ [][Next]_vars

(***************************************************************************)
(* The same instance and the same calls with a caller whose tree has one   *)
(* node or two, so that most of the ids it registers are not in the tree.  *)
(***************************************************************************)
RegistryTrees == TreesOf(1) \cup TreesOf(2)

InitRegistry ==
  /\ settings \in {Constructor(c) : c \in Configs}
  /\ sizes = [k \in {} |-> 0]
  /\ root \in RegistryTrees
  /\ arg = <<>>
  /\ view = <<>>
  /\ ret = [kind |-> "none"]

SpecRegistry == InitRegistry /\ [][Next]_vars

(***************************************************************************)
(* HierarchyView, the caller of the engine: one render builds the graph    *)
(* from the props, registers nodeSize(node) for every node of              *)
(* traverse(data) and calls compute(data).  A render is one synchronous    *)
(* step.                                                                   *)
(***************************************************************************)
MaxViewNodes == 6

\* The data of a view: every tree shape up to MaxViewNodes nodes, the nodes
\* that have children all carrying the same direction field.
ViewTrees ==
  {t \in UNION {TreesOf(n) : n \in 1..MaxViewNodes} :
     \A p, q \in {m \in TreeNodes(t) : Len(m.children) > 0} : p.direction = q.direction}

DefaultViewGap == [x |-> Num(50), y |-> Num(50)]

\* the GraphConfig the view passes to the constructor
ViewConfig(props) ==
  [gap |-> Nullish(props.gap, DefaultViewGap),
   direction |-> Some(Nullish(props.direction, "vertical"))] @@ NoTuning

ViewProps ==
  {[gap |-> Undefined, direction |-> Undefined],
   [gap |-> Some([x |-> Num(20), y |-> Num(60)]), direction |-> Some("horizontal")]}

\* the nodeSize functions of the callers: one size for all nodes, or one size
\* for nodes with children and another for the rest
SizeFns == {"uniform", "byKind"}

nodeSize(fn, node) ==
  IF fn = "byKind" /\ Len(node.children) > 0
    THEN [width |-> Num(200), height |-> Num(80)]
    ELSE [width |-> Num(100), height |-> Num(50)]

RECURSIVE RegisterLoop(_, _, _, _)
\* for (const node of allNodes) graph.registerSize(node.id, nodeSize(node))
RegisterLoop(sz, fn, allNodes, k) ==
  IF k > Len(allNodes) THEN sz
  ELSE RegisterLoop(MapSet(sz, allNodes[k].id, nodeSize(fn, allNodes[k])),
                    fn, allNodes, k + 1)

InitView ==
  /\ settings \in {Constructor(ViewConfig(props)) : props \in ViewProps}
  /\ sizes = [k \in {} |-> 0]
  /\ root \in ViewTrees
  /\ arg = <<>>
  /\ view = <<>>
  /\ ret = [kind |-> "none"]

Render(fn) ==
  /\ sizes' = RegisterLoop(sizes, fn, traverse(root), 1)
  /\ ret' = compute(settings, sizes', root)
  /\ UNCHANGED <<settings, root, arg, view>>

NextView == \E fn \in SizeFns : Render(fn)

SpecView == InitView /\ [][NextView]_vars

(***************************************************************************)
(* Edge regeneration: a caller that holds a tree, a registry in which some *)
(* of the tree's nodes have a size, and a list of placed nodes of the tree *)
(* (positions moved, entries possibly missing), and calls                  *)
(* regenerateEdges on the list.                                            *)
(***************************************************************************)
MaxRouteNodes == 3

\* every tree shape up to MaxRouteNodes nodes; no node carries a direction
RouteTrees ==
  UNION {{MkNode(par, [i \in 1..n |-> Undefined], n, 1) : par \in ParentVectors(n)} :
           n \in 1..MaxRouteNodes}

RouteConfig == [gap |-> [x |-> Num(20), y |-> Num(60)], direction |-> Undefined] @@ NoTuning

\* Where a placed node may have been moved to.  Between two of these points
\* lie a drop straight down and one straight up (dx = 0), a step to the
\* right and one to the left (dy = 0), slanted pairs on both sides of
\* |dy| = |dx| / 2, and a pair exactly on it.
RoutePositions ==
  {[x |-> Num(0), y |-> Num(0)], [x |-> Num(0), y |-> Num(100)],
   [x |-> Num(60), y |-> Num(100)], [x |-> Num(200), y |-> Num(30)]}

\* a registry that holds a size for some of these ids
SizeMaps(ids) == UNION {[S -> Dims] : S \in SUBSET ids}

\* the placed nodes of a subtree in the order compute lists them, node id at
\* at[id] when at[id] is defined and left out of the list otherwise
RECURSIVE PlacedAt(_, _, _)
PlacedAt(node, depth, at) ==
  (IF at[node.id] = Undefined THEN <<>>
   ELSE <<[data |-> node, position |-> at[node.id][1], depth |-> depth]>>)
  \o Concat([k \in 1..Len(node.children) |->
               PlacedAt(node.children[k], depth + 1, at)])

PlacedLists(tree) ==
  {PlacedAt(tree, 0, at) :
     at \in [TreeIds(tree) -> {Undefined} \cup {Some(p) : p \in RoutePositions}]}

InitRoute ==
  /\ settings = Constructor(RouteConfig)
  /\ root \in RouteTrees
  /\ sizes \in SizeMaps(TreeIds(root))
  /\ arg \in PlacedLists(root)
  /\ view = <<>>
  /\ ret = [kind |-> "none"]

RegenerateEdges ==
  /\ ret' = regenerateEdges(settings, sizes, arg)
  /\ UNCHANGED <<settings, sizes, root, arg, view>>

NextRoute == RegenerateEdges

SpecRoute == InitRoute /\ [][NextRoute]_vars

(***************************************************************************)
(* The edge path builder: a caller that holds a list of waypoints and      *)
(* calls buildEdgePath on it.  No HierarchyGraph instance takes part.      *)
(***************************************************************************)
MaxPoints == 4

NoGraph ==
  /\ settings = <<>>
  /\ sizes = [k \in {} |-> 0]
  /\ root = <<>>

\* Segments between these points are 25, 64 and 89 pixels long along an
\* axis (shorter than twice the bend radius and of odd length, exactly
\* twice the bend radius, longer), diagonal, or of length zero.
PathCoordinates == {Px(0), Px(25), Px(89)}

PathPoints == {[x |-> a, y |-> b] : a, b \in PathCoordinates}

Waypoints == UNION {[1..n -> PathPoints] : n \in 0..MaxPoints}

InitPath ==
  /\ NoGraph
  /\ arg \in Waypoints
  /\ view = <<>>
  /\ ret = [kind |-> "none"]

BuildEdgePath ==
  /\ ret' = buildEdgePath(arg)
  /\ UNCHANGED <<settings, sizes, root, arg, view>>

NextPath == BuildEdgePath

SpecPath == InitPath /\ [][NextPath]_vars

(***************************************************************************)
(* The SVG path compiler: a caller that holds a list of draw commands and  *)
(* calls compilePath on it.                                                *)
(***************************************************************************)
MaxCommands == 3

CommandPoints == {[x |-> Px(0), y |-> Px(0)], [x |-> Px(25), y |-> Px(100)]}

DrawCommands ==
  {moveTo(q) : q \in CommandPoints} \cup {lineTo(q) : q \in CommandPoints}
  \cup {curveTo(c, q) : c, q \in CommandPoints}

CommandLists == UNION {[1..n -> DrawCommands] : n \in 0..MaxCommands}

InitCompile ==
  /\ NoGraph
  /\ arg \in CommandLists
  /\ view = <<>>
  /\ ret = [kind |-> "none"]

CompilePath ==
  /\ ret' = compilePath(arg)
  /\ UNCHANGED <<settings, sizes, root, arg, view>>

NextCompile == CompilePath

SpecCompile == InitCompile /\ [][NextCompile]_vars

(***************************************************************************)
(* Layouts of one flow direction: an instance built with default tuning    *)
(* and a default direction, a tree none of whose nodes carries a direction *)
(* field, so that every node resolves to the default, and every node of    *)
(* the tree registered.  The caller calls compute.                         *)
(***************************************************************************)
MaxFlowNodes == 5

FlowTrees ==
  UNION {{MkNode(par, [i \in 1..n |-> Undefined], n, 1) : par \in ParentVectors(n)} :
           n \in 1..MaxFlowNodes}

\* the two default directions, with gaps and with no gap at all
FlowConfigs ==
  {[gap |-> g, direction |-> Some(dir)] @@ NoTuning :
     g \in {[x |-> Num(20), y |-> Num(60)], [x |-> Num(0), y |-> Num(0)]},
     dir \in {"vertical", "horizontal"}}

InitFlow ==
  /\ settings \in {Constructor(c) : c \in FlowConfigs}
  /\ root \in FlowTrees
  /\ sizes \in [TreeIds(root) -> Dims]
  /\ arg = <<>>
  /\ view = <<>>
  /\ ret = [kind |-> "none"]

NextFlow == Compute

SpecFlow == InitFlow /\ [][NextFlow]_vars

(***************************************************************************)
(* HierarchyView with dragging switched on and no positionOverrides prop   *)
(* (uncontrolled overrides).  The view keeps internalOverrides and         *)
(* liveDrag between its handlers; a handler and the render its state       *)
(* updates cause are one step.  Of a render the state machine keeps the    *)
(* registry after the register loop, the layout, the list handed to        *)
(* regenerateEdges (arg, empty when the render took layout.edges) and      *)
(* displayEdges (ret).  The handlers are called in any order, by any       *)
(* number of DraggableNodeContainers.                                      *)
(***************************************************************************)
MaxDrags == 2

DragProps ==
  {[gap |-> Undefined, direction |-> dir, dragMode |-> m] :
     dir \in {Undefined, Some("horizontal")},
     m \in {"node", "subtree"}}
  \cup {[gap |-> Some([x |-> Num(20), y |-> Num(60)]), direction |-> Undefined,
         dragMode |-> "subtree"]}

\* the delta a container reports while the pointer moves, and the finalDelta
\* it reports when the pointer is released
Deltas == {[x |-> Num(0 - 40), y |-> Num(20)]}

FinalDeltas == {[x |-> Num(30), y |-> Num(0 - 10)]}

ZeroDelta == [x |-> 0, y |-> 0]

\* nodeLookup of the view: the nodes of traverse(data) by id, the last of an
\* id winning
nodeLookupHas(data, id) ==
  \E k \in 1..Len(traverse(data)) : traverse(data)[k].id = id

nodeLookupGet(data, id) ==
  LET allNodes == traverse(data)
      last == CHOOSE k \in 1..Len(allNodes) :
                /\ allNodes[k].id = id
                /\ \A j \in (k + 1)..Len(allNodes) : allNodes[j].id # id
  IN allNodes[last]

\* getSubtreeIds of the view
RECURSIVE getSubtreeIdsOfView(_)
getSubtreeIdsOfView(node) ==
  <<node.id>> \o
  (IF node.hasChildren
     THEN Concat([k \in 1..Len(node.children) |->
                    getSubtreeIdsOfView(node.children[k])])
     ELSE <<>>)

\* mutant: the lookup holds the computed positions whatever the overrides
positionLookup_IgnoresOverrides(layoutNodes, effectiveOverrides) ==
  [id \in {layoutNodes[k].data.id : k \in 1..Len(layoutNodes)} |->
     PositionMapGet(layoutNodes, id).position]

\* positionLookup: override ?? placed.position for every placed node
positionLookup(layoutNodes, effectiveOverrides) ==
  [id \in {layoutNodes[k].data.id : k \in 1..Len(layoutNodes)} |->
     IF Has(effectiveOverrides, id)
       THEN effectiveOverrides[id]
       ELSE PositionMapGet(layoutNodes, id).position]

\* const affectedIds = dragMode === "subtree" ? getSubtreeIds(node) : [nodeId]
affectedIds(dragMode, node) ==
  IF dragMode = "subtree" THEN getSubtreeIdsOfView(node) ELSE <<node.id>>

liveAffectedIds(data, dragMode, liveDrag) ==
  IF liveDrag = Undefined THEN {}
  ELSE IF ~nodeLookupHas(data, liveDrag[1].nodeId) THEN {}
  ELSE LET ids == affectedIds(dragMode, nodeLookupGet(data, liveDrag[1].nodeId))
       IN {ids[k] : k \in 1..Len(ids)}

\* the list displayEdges hands to regenerateEdges
displayList(data, v) ==
  LET lookup == positionLookup(v.layout.nodes, v.internalOverrides)
      live == liveAffectedIds(data, v.props.dragMode, v.liveDrag)
  IN [k \in 1..Len(v.layout.nodes) |->
        LET placed == v.layout.nodes[k]
            basePos == IF Has(lookup, placed.data.id)
                         THEN lookup[placed.data.id] ELSE placed.position
        IN IF v.liveDrag # Undefined /\ placed.data.id \in live
             THEN [placed EXCEPT !.position =
                     [x |-> basePos.x + v.liveDrag[1].delta.x,
                      y |-> basePos.y + v.liveDrag[1].delta.y]]
             ELSE [placed EXCEPT !.position = basePos]]

takesLayoutEdges(v) ==
  DOMAIN v.internalOverrides = {} /\ v.liveDrag = Undefined

displayEdges(st, sz, data, v) ==
  IF takesLayoutEdges(v)
    THEN [kind |-> "edges", edges |-> v.layout.edges]
    ELSE regenerateEdges(st, sz, displayList(data, v))

\* the overrides handleDragEnd stores: the loop over affectedIds
RECURSIVE OverrideLoop(_, _, _, _, _)
OverrideLoop(next, ids, lookup, finalDelta, k) ==
  IF k > Len(ids) THEN next
  ELSE OverrideLoop(IF Has(lookup, ids[k])
                      THEN MapSet(next, ids[k],
                                  [x |-> lookup[ids[k]].x + finalDelta.x,
                                   y |-> lookup[ids[k]].y + finalDelta.y])
                      ELSE next,
                    ids, lookup, finalDelta, k + 1)

\* the state handleDragEnd leaves
handleDragEnd(data, v, nodeId, finalDelta) ==
  LET cleared == [v EXCEPT !.liveDrag = Undefined]
      lookup == positionLookup(v.layout.nodes, v.internalOverrides)
  IN IF ~nodeLookupHas(data, nodeId) THEN cleared
     ELSE IF ~Has(lookup, nodeId) THEN cleared
     ELSE [cleared EXCEPT !.internalOverrides =
             OverrideLoop(v.internalOverrides,
                          affectedIds(v.props.dragMode, nodeLookupGet(data, nodeId)),
                          lookup, finalDelta, 1)]

\* The render after a state update: the register loop runs again, the
\* layout is computed again when the graph is a new one (the default gap is
\* a new object in every render), and displayEdges is refreshed.
Rerender(v) ==
  /\ sizes' = RegisterLoop(sizes, "uniform", traverse(root), 1)
  /\ view' = [v EXCEPT !.layout = IF v.props.gap = Undefined
                                    THEN compute(settings, sizes', root)
                                    ELSE v.layout]
  /\ arg' = IF takesLayoutEdges(view') THEN <<>> ELSE displayList(root, view')
  /\ ret' = displayEdges(settings, sizes', root, view')
  /\ UNCHANGED <<settings, root>>

InitDrag ==
  /\ root \in RouteTrees
  /\ \E props \in DragProps :
       /\ settings = Constructor(ViewConfig(props))
       /\ sizes = RegisterLoop([k \in {} |-> 0], "uniform", traverse(root), 1)
       /\ view = [props |-> props,
                  layout |-> compute(settings, sizes, root),
                  internalOverrides |-> [k \in {} |-> 0],
                  liveDrag |-> Undefined,
                  drags |-> 0]
  /\ arg = <<>>
  /\ ret = [kind |-> "edges", edges |-> view.layout.edges]

DragStart(nodeId) ==
  Rerender([view EXCEPT !.liveDrag = Some([nodeId |-> nodeId, delta |-> ZeroDelta])])

Drag(nodeId, delta) ==
  Rerender([view EXCEPT !.liveDrag = Some([nodeId |-> nodeId, delta |-> delta])])

DragEnd(nodeId, finalDelta) ==
  /\ view.drags < MaxDrags
  /\ Rerender([handleDragEnd(root, view, nodeId, finalDelta) EXCEPT !.drags = @ + 1])

DragCancel ==
  Rerender([view EXCEPT !.liveDrag = Undefined])

NextDrag ==
  \/ \E nodeId \in TreeIds(root) : DragStart(nodeId)
  \/ \E nodeId \in TreeIds(root), delta \in Deltas : Drag(nodeId, delta)
  \/ \E nodeId \in TreeIds(root), finalDelta \in FinalDeltas : DragEnd(nodeId, finalDelta)
  \/ DragCancel

SpecDrag == InitDrag /\ [][NextDrag]_vars

(***************************************************************************)
(* DraggableNodeContainer of a draggable node whose four callbacks are     *)
(* set.  The view holds the refs of the component; ret holds the callbacks *)
(* delivered since the latest pointer-down the component took up, in the   *)
(* order of delivery.  An event handler, or the animation frame callback,  *)
(* is one step.  Client coordinates are whole pixels, deltas are canvas    *)
(* units in the fixed-point scale.                                         *)
(***************************************************************************)
MaxEvents == 5

DRAG_THRESHOLD == 3

\* Pointer positions: from the first, the second is short of the threshold
\* on both axes, the third exactly on it on one axis, the fourth beyond it.
ClientPoints ==
  {[x |-> 10, y |-> 10], [x |-> 12, y |-> 11], [x |-> 10, y |-> 13], [x |-> 16, y |-> 10]}

Buttons == {0, 2}

Keys == {"Escape", "Enter"}

Zooms == {1, 2}

Delivered(fn, client, delta) == [fn |-> fn, client |-> client, delta |-> delta]

Outcome(state, calls) == [state |-> state, calls |-> calls]

handlePointerDown(v, e) ==
  IF e.button # 0 THEN Outcome(v, <<>>)
  ELSE Outcome([v EXCEPT !.isDragging = TRUE,
                         !.hasMoved = FALSE,
                         !.startPos = e.client,
                         !.currentDelta = ZeroDelta,
                         !.lastNotifiedDelta = ZeroDelta],
               <<>>)

\* if (rafId.current !== null) return; rafId.current = requestAnimationFrame(...)
scheduleUpdate(v) ==
  IF v.rafId # Undefined THEN v ELSE [v EXCEPT !.rafId = Some(1)]

handlePointerMove(v, e) ==
  IF ~v.isDragging THEN Outcome(v, <<>>)
  ELSE LET dx == e.client.x - v.startPos.x
           dy == e.client.y - v.startPos.y
           canvasDelta == [x |-> ExactDiv(Num(dx), v.zoom),
                           y |-> ExactDiv(Num(dy), v.zoom)]
       IN IF ~v.hasMoved /\ Abs(dx) < DRAG_THRESHOLD /\ Abs(dy) < DRAG_THRESHOLD
            THEN Outcome(v, <<>>)
            ELSE Outcome(scheduleUpdate([v EXCEPT !.hasMoved = TRUE,
                                                  !.currentDelta = canvasDelta]),
                         IF ~v.hasMoved
                           THEN <<Delivered("onDragStart", Some(e.client), Undefined)>>
                           ELSE <<>>)

handlePointerUp(v) ==
  IF ~v.isDragging THEN Outcome(v, <<>>)
  ELSE Outcome([v EXCEPT !.isDragging = FALSE,
                         !.rafId = Undefined,
                         !.currentDelta = ZeroDelta],
               IF v.hasMoved
                 THEN <<Delivered("onDragEnd", Undefined, Some(v.currentDelta))>>
                 ELSE <<>>)

handlePointerCancel(v) ==
  IF ~v.isDragging THEN Outcome(v, <<>>)
  ELSE Outcome([v EXCEPT !.isDragging = FALSE,
                         !.hasMoved = FALSE,
                         !.rafId = Undefined],
               <<Delivered("onDragCancel", Undefined, Undefined)>>)

handleKeyDown(v, key) ==
  IF key = "Escape" /\ v.isDragging
    THEN Outcome([v EXCEPT !.isDragging = FALSE,
                           !.hasMoved = FALSE,
                           !.rafId = Undefined],
                 <<Delivered("onDragCancel", Undefined, Undefined)>>)
    ELSE Outcome(v, <<>>)

\* the callback scheduleUpdate gave to requestAnimationFrame
animationFrame(v) ==
  LET w == [v EXCEPT !.rafId = Undefined]
      delta == v.currentDelta
      dx == Abs(delta.x - v.lastNotifiedDelta.x)
      dy == Abs(delta.y - v.lastNotifiedDelta.y)
  IN IF ~v.isDragging THEN Outcome(w, <<>>)
     ELSE IF dx > Half(Num(1)) \/ dy > Half(Num(1))
       THEN Outcome([w EXCEPT !.lastNotifiedDelta = delta],
                    <<Delivered("onDrag", Undefined, Some(delta))>>)
       ELSE Outcome(w, <<>>)

InitPointer ==
  /\ NoGraph
  /\ arg = <<>>
  /\ \E zoom \in Zooms :
       view = [zoom |-> zoom,
               isDragging |-> FALSE,
               hasMoved |-> FALSE,
               startPos |-> ZeroDelta,
               currentDelta |-> ZeroDelta,
               lastNotifiedDelta |-> ZeroDelta,
               rafId |-> Undefined,
               events |-> 0]
  /\ ret = [kind |-> "callbacks", log |-> <<>>]

\* one event: the refs the handler leaves and the callbacks it delivered
Handled(outcome, log) ==
  /\ view.events < MaxEvents
  /\ view' = [outcome.state EXCEPT !.events = @ + 1]
  /\ ret' = [kind |-> "callbacks", log |-> log \o outcome.calls]
  /\ UNCHANGED <<settings, sizes, root, arg>>

PointerDown(e) ==
  Handled(handlePointerDown(view, e), IF e.button = 0 THEN <<>> ELSE ret.log)

PointerMove(e) == Handled(handlePointerMove(view, e), ret.log)

PointerUp == Handled(handlePointerUp(view), ret.log)

PointerCancel == Handled(handlePointerCancel(view), ret.log)

KeyDown(key) == Handled(handleKeyDown(view, key), ret.log)

AnimationFrame ==
  /\ view.rafId # Undefined
  /\ Handled(animationFrame(view), ret.log)

NextPointer ==
  \/ \E client \in ClientPoints, button \in Buttons :
       PointerDown([client |-> client, button |-> button])
  \/ \E client \in ClientPoints : PointerMove([client |-> client])
  \/ PointerUp
  \/ PointerCancel
  \/ \E key \in Keys : KeyDown(key)
  \/ AnimationFrame

SpecPointer == InitPointer /\ [][NextPointer]_vars

(***************************************************************************)
(* ZoomableCanvas, mounted, with touch enabled.  The view holds the zoom   *)
(* of the view state and the refs the handlers keep.  The pan and the      *)
(* velocity are written by the handlers and read by no computation of the  *)
(* zoom: of the pan nothing is kept, of the velocity whether it is beyond  *)
(* VELOCITY_THRESHOLD on some axis ("fast") or not ("slow"), which is what *)
(* starts and stops the momentum loop.  A zoom is a JavaScript number: a   *)
(* finite value in the fixed-point scale, NaN or Infinity.  A handler with *)
(* the render its setView causes is one step; a touch event carries one    *)
(* changed touch.                                                          *)
(***************************************************************************)
Finite(n) == [kind |-> "finite", value |-> n]

NaN == [kind |-> "NaN", value |-> 0]

PlusInfinity == [kind |-> "Infinity", value |-> 0]

\* a / b of two distances (neither negative)
divide(a, b) ==
  IF b # 0 THEN [kind |-> "finite", value |-> <<a, b>>]
  ELSE IF a = 0 THEN [kind |-> "NaN", value |-> <<0, 1>>]
  ELSE [kind |-> "Infinity", value |-> <<0, 1>>]

\* zoom * scale, the zoom not negative
times(zoom, scale) ==
  IF zoom.kind = "NaN" \/ scale.kind = "NaN" THEN NaN
  ELSE IF zoom.kind = "Infinity"
    THEN (IF scale.kind = "finite" /\ scale.value[1] = 0 THEN NaN ELSE PlusInfinity)
  ELSE IF scale.kind = "Infinity"
    THEN (IF zoom.value = 0 THEN NaN ELSE PlusInfinity)
  ELSE Finite(MulFrac(zoom.value, scale.value))

plus(zoom, delta) ==
  IF zoom.kind = "finite" THEN Finite(zoom.value + delta) ELSE zoom

\* Math.max(minZoom, x) and Math.min(x, maxZoom): NaN if x is NaN
mathMax(minZoom, x) ==
  IF x.kind = "finite" THEN Finite(Max2(minZoom, x.value)) ELSE x

mathMin(x, maxZoom) ==
  IF x.kind = "finite" THEN Finite(Min2(x.value, maxZoom))
  ELSE IF x.kind = "Infinity" THEN Finite(maxZoom)
  ELSE x

\* Math.min(Math.max(minZoom, x), maxZoom)
clampZoom(minZoom, x, maxZoom) == mathMin(mathMax(minZoom, x), maxZoom)

ZOOM_MIN_DEFAULT == Half(Num(1))

ZOOM_MAX_DEFAULT == Num(3)

ZOOM_INITIAL == Num(1)

\* 0.001
ZOOM_SENSITIVITY == <<1, 1000>>

MAIN_BUTTON == 0

\* the props with minZoom <= initialZoom <= maxZoom: the defaults, and a
\* canvas that starts at its maxZoom
ZoomProps ==
  {[minZoom |-> Undefined, maxZoom |-> Undefined, initialZoom |-> Undefined],
   [minZoom |-> Some(Num(1)), maxZoom |-> Some(Num(2)), initialZoom |-> Some(Num(2))]}

\* deltaY of a wheel event: a notch each way, and a fling each way
WheelDeltas == {0 - 100, 100, 0 - 3000, 3000}

TouchIds == {1, 2}

\* two of these points are 0, 100 or 200 px apart
TouchPoints == {[x |-> 100, y |-> 100], [x |-> 200, y |-> 100], [x |-> 300, y |-> 100]}

Speeds == {"slow", "fast"}

MapDelete(m, id) == [k \in (DOMAIN m) \ {id} |-> m[k]]

\* Math.hypot(t2.x - t1.x, t2.y - t1.y) of the two tracked touches
pinchDistance(touches) ==
  LET t1 == touches[CHOOSE i \in DOMAIN touches : \A j \in DOMAIN touches : i <= j]
      t2 == touches[CHOOSE i \in DOMAIN touches : \A j \in DOMAIN touches : i >= j]
  IN Hypot(t2.x - t1.x, t2.y - t1.y)

\* cancelAnimationFrame(rafId.current); velocity.current = { x: 0, y: 0 }
stopMomentum(v) == [v EXCEPT !.rafId = Undefined, !.velocity = "slow"]

onWheel(v, e) ==
  LET delta == MulFrac(Num(e.deltaY) * (0 - 1), ZOOM_SENSITIVITY)
      newZoom == clampZoom(v.minZoom, plus(v.zoom, delta), v.maxZoom)
  IN [stopMomentum(v) EXCEPT !.zoom = newZoom]

onPointerDown(v, e) ==
  IF e.button # MAIN_BUTTON THEN v
  ELSE IF e.onDraggableNode THEN v
  ELSE [v EXCEPT !.rafId = Undefined, !.dragging = TRUE, !.velocity = "slow"]

onPointerMove(v, e) ==
  IF ~v.dragging THEN v ELSE [v EXCEPT !.velocity = e.speed]

onPointerUp(v) ==
  IF ~v.dragging THEN v
  ELSE [v EXCEPT !.dragging = FALSE,
                 !.rafId = IF v.velocity = "fast" THEN Some(1) ELSE v.rafId]

\* one frame of the momentum loop; the decayed velocity is e.speed
runMomentum(v, e) ==
  IF v.velocity = "slow"
    THEN [v EXCEPT !.rafId = Undefined]
    ELSE [v EXCEPT !.velocity = e.speed, !.rafId = Some(1)]

onTouchStart(v, e) ==
  IF e.onDraggableNode THEN v
  ELSE LET w == [stopMomentum(v) EXCEPT !.touches = MapSet(v.touches, e.identifier, e.client)]
       IN IF Cardinality(DOMAIN w.touches) = 1
            THEN [w EXCEPT !.dragging = TRUE]
          ELSE IF Cardinality(DOMAIN w.touches) = 2
            THEN [w EXCEPT !.dragging = FALSE,
                           !.initialPinchDistance = Some(pinchDistance(w.touches)),
                           !.initialZoomOnPinch = v.zoom]
          ELSE w

onTouchMove(v, e) ==
  LET w == [v EXCEPT !.touches = MapSet(v.touches, e.identifier, e.client)]
  IN IF Cardinality(DOMAIN w.touches) = 1 /\ w.dragging
       THEN [w EXCEPT !.velocity = e.speed]
     ELSE IF Cardinality(DOMAIN w.touches) = 2 /\ w.initialPinchDistance # Undefined
       THEN LET currentDistance == pinchDistance(w.touches)
                scale == divide(currentDistance, w.initialPinchDistance[1])
                newZoom == clampZoom(w.minZoom, times(w.initialZoomOnPinch, scale),
                                     w.maxZoom)
            IN [w EXCEPT !.zoom = newZoom]
     ELSE w

onTouchEnd(v, e) ==
  LET w == [v EXCEPT !.touches = MapDelete(v.touches, e.identifier)]
  IN IF Cardinality(DOMAIN w.touches) = 0
       THEN [w EXCEPT !.dragging = FALSE,
                      !.rafId = IF w.dragging /\ w.velocity = "fast"
                                  THEN Some(1) ELSE w.rafId,
                      !.initialPinchDistance = Undefined]
     ELSE IF Cardinality(DOMAIN w.touches) = 1
       THEN [w EXCEPT !.initialPinchDistance = Undefined, !.dragging = TRUE]
     ELSE w

InitZoom ==
  /\ NoGraph
  /\ arg = <<>>
  /\ ret = [kind |-> "none"]
  /\ \E props \in ZoomProps :
       view = [minZoom |-> Nullish(props.minZoom, ZOOM_MIN_DEFAULT),
               maxZoom |-> Nullish(props.maxZoom, ZOOM_MAX_DEFAULT),
               zoom |-> Finite(Nullish(props.initialZoom, ZOOM_INITIAL)),
               dragging |-> FALSE,
               velocity |-> "slow",
               rafId |-> Undefined,
               touches |-> [k \in {} |-> 0],
               initialPinchDistance |-> Undefined,
               initialZoomOnPinch |-> Finite(Num(1)),
               events |-> 0]

\* one event handled, the view it leaves
Handles(state) ==
  /\ view.events < MaxEvents
  /\ view' = [state EXCEPT !.events = @ + 1]
  /\ UNCHANGED <<settings, sizes, root, arg, ret>>

Wheel(e) == Handles(onWheel(view, e))

MouseDown(e) == Handles(onPointerDown(view, e))

MouseMove(e) == Handles(onPointerMove(view, e))

MouseUp == Handles(onPointerUp(view))

MomentumFrame(e) ==
  /\ view.rafId # Undefined
  /\ Handles(runMomentum(view, e))

TouchStart(e) == Handles(onTouchStart(view, e))

TouchMove(e) == Handles(onTouchMove(view, e))

TouchEnd(e) == Handles(onTouchEnd(view, e))

NextZoom ==
  \/ \E deltaY \in WheelDeltas : Wheel([deltaY |-> deltaY])
  \/ \E button \in Buttons, onNode \in BOOLEAN :
       MouseDown([button |-> button, onDraggableNode |-> onNode])
  \/ \E speed \in Speeds : MouseMove([speed |-> speed])
  \/ MouseUp
  \/ \E speed \in Speeds : MomentumFrame([speed |-> speed])
  \/ \E id \in TouchIds, client \in TouchPoints, onNode \in BOOLEAN :
       TouchStart([identifier |-> id, client |-> client, onDraggableNode |-> onNode])
  \/ \E id \in TouchIds, client \in TouchPoints, speed \in Speeds :
       TouchMove([identifier |-> id, client |-> client, speed |-> speed])
  \/ \E id \in TouchIds : TouchEnd([identifier |-> id])

SpecZoom == InitZoom /\ [][NextZoom]_vars

(***************************************************************************)
(* The tree as the claims speak of it: its set of nodes, its parent/child  *)
(* pairs, and what the latest compute call returned for a node.            *)
(***************************************************************************)
AllSized == \A n \in TreeNodes(root) : n.id \in DOMAIN sizes

Computed == ret.kind \in {"result", "error"}

Returned == ret.kind = "result"

\* the PlacedNode of the latest result whose node has this id
Placed(id) == CHOOSE p \in {ret.nodes[k] : k \in 1..Len(ret.nodes)} : p.data.id = id

(***************************************************************************)
(* C1: when every node of the tree has a registered size, compute returns  *)
(* a nodes list with exactly one PlacedNode per tree node (same ids, none  *)
(* missing, none twice), the root is at (0,0) with depth 0, and every      *)
(* other node's depth is its parent's depth plus 1.                        *)
(***************************************************************************)
C1_OnePlacedNodePerNode ==
  (Computed /\ AllSized) =>
    /\ Returned
    /\ Len(ret.nodes) = Cardinality(TreeIds(root))
    /\ {ret.nodes[k].data.id : k \in 1..Len(ret.nodes)} = TreeIds(root)
    /\ \A j, k \in 1..Len(ret.nodes) :
         ret.nodes[j].data.id = ret.nodes[k].data.id => j = k
    /\ \A k \in 1..Len(ret.nodes) :
         ret.nodes[k].data \in TreeNodes(root)
    /\ Placed(root.id).position = [x |-> 0, y |-> 0]
    /\ Placed(root.id).depth = 0
    /\ \A p \in TreeNodes(root) : \A c \in 1..Len(p.children) :
         Placed(p.children[c].id).depth = Placed(p.id).depth + 1

C1_Witness ==
  /\ Returned
  /\ Len(ret.nodes) = 4
  /\ \E k \in 1..Len(ret.nodes) : ret.nodes[k].depth = 2
  /\ \E j, k \in 1..Len(ret.nodes) : j # k /\ ret.nodes[j].depth = 1 /\ ret.nodes[k].depth = 1

(***************************************************************************)
(* C2: when at least one node of the tree, at any depth, has no registered *)
(* size, compute throws; it returns no nodes/edges result at all.          *)
(***************************************************************************)
C2_MissingSizeThrows ==
  (Computed /\ ~AllSized) => ret.kind = "error"

C2_Witness ==
  /\ ret.kind = "error"
  /\ root.id \in DOMAIN sizes
  /\ \A k \in 1..Len(root.children) : root.children[k].id \in DOMAIN sizes
  /\ Cardinality(TreeIds(root) \ DOMAIN sizes) = 1

(***************************************************************************)
(* C3: isReady(root) is true exactly when every node of the tree has an    *)
(* entry in the Size Registry, whatever other ids are registered.          *)
(***************************************************************************)
C3_IsReadyIffAllSized ==
  ret.kind = "isReady" => (ret.value <=> AllSized)

C3_Witness ==
  /\ ret.kind = "isReady"
  /\ ret.value
  /\ Len(root.children) > 0
  /\ (DOMAIN sizes) \ TreeIds(root) # {}

\* the direction a node's children are laid out in, as the claims define it
ResolvedRef(node) ==
  IF node.direction = Undefined THEN settings.direction ELSE node.direction[1]

Parents == {p \in TreeNodes(root) : Len(p.children) > 0}

\* what the measurer reports for the children of p
ChildWidths(p) == [k \in 1..Len(p.children) |-> measureWidth(settings, sizes, p.children[k])]

ChildHeights(p) == [k \in 1..Len(p.children) |-> measureHeight(settings, sizes, p.children[k])]

IsLeaf(node) == Len(node.children) = 0

(***************************************************************************)
(* C4: under a parent whose resolved direction is horizontal, with         *)
(* measured child widths W and F = sum(W) + (n-1)*gap.x, child i is at     *)
(* x = parent.x - F/2 + sum_{j<i}(W_j + gap.x) + W_i/2 and at              *)
(* y = parent.y + parent.height/2 + gap.y + child.height/2; a single child *)
(* has the parent's x; two 100x50 leaves with gap.x = 20 under the root    *)
(* are at x = -60 and x = +60, y = root.height/2 + gap.y + 25.             *)
(* (Both sides are doubled so that no half is taken in the statement.)     *)
(***************************************************************************)
C4_HorizontalSpread ==
  Returned =>
    \A p \in Parents : ResolvedRef(p) = "horizontal" =>
      LET W == ChildWidths(p)
          n == Len(p.children)
          F == SumSeq(W) + (n - 1) * settings.gap.x
          pp == Placed(p.id).position
      IN /\ \A i \in 1..n :
              LET cp == Placed(p.children[i].id).position
              IN /\ 2 * cp.x = 2 * pp.x - F
                                 + 2 * (SumTo(W, i - 1) + (i - 1) * settings.gap.x) + W[i]
                 /\ 2 * cp.y = 2 * pp.y + sizes[p.id].height + 2 * settings.gap.y
                                 + sizes[p.children[i].id].height
         /\ n = 1 => Placed(p.children[1].id).position.x = pp.x
         /\ ( /\ p = root
              /\ n = 2
              /\ settings.gap.x = Num(20)
              /\ \A i \in 1..2 : /\ IsLeaf(p.children[i])
                                 /\ sizes[p.children[i].id] = [width |-> Num(100),
                                                               height |-> Num(50)] )
            => /\ Placed(p.children[1].id).position.x = Num(-60)
               /\ Placed(p.children[2].id).position.x = Num(60)
               /\ \A i \in 1..2 :
                    2 * Placed(p.children[i].id).position.y
                      = sizes[root.id].height + 2 * settings.gap.y + 2 * Num(25)

C4_Witness ==
  /\ Returned
  /\ ResolvedRef(root) = "horizontal"
  /\ Len(root.children) = 2
  /\ ~IsLeaf(root.children[1])
  /\ ChildWidths(root)[1] > sizes[root.children[1].id].width
  /\ Placed(root.children[2].id).position.x > 0

(***************************************************************************)
(* C5: under a parent whose resolved direction is vertical, with measured  *)
(* child heights H, child 0 is centred at                                  *)
(* y = parent.y + parent.height/2 + gap.y + H_0/2 + verticalShift, and the *)
(* centres of adjacent siblings differ by                                  *)
(* H_i/2 + gap.y*siblingFactor + H_{i+1}/2; a single leaf child of height  *)
(* 50 with gap.y = 60 and default tuning is at y = rootHeight/2 + 60.      *)
(***************************************************************************)
C5_VerticalStack ==
  Returned =>
    \A p \in Parents : ResolvedRef(p) = "vertical" =>
      LET H == ChildHeights(p)
          n == Len(p.children)
          pp == Placed(p.id).position
          sf == settings.tuning.siblingFactor
          y(i) == Placed(p.children[i].id).position.y
      IN /\ 2 * y(1) = 2 * pp.y + sizes[p.id].height + 2 * settings.gap.y + H[1]
                         + 2 * settings.tuning.verticalShift
         /\ \A i \in 1..(n - 1) :
              sf[2] * (2 * (y(i + 1) - y(i)) - H[i] - H[i + 1]) = 2 * sf[1] * settings.gap.y
         /\ ( /\ p = root
              /\ n = 1
              /\ IsLeaf(p.children[1])
              /\ sizes[p.children[1].id].height = Num(50)
              /\ settings.gap.y = Num(60)
              /\ settings.tuning = Constructor([gap |-> settings.gap,
                                                direction |-> Undefined] @@ NoTuning).tuning )
            => 2 * y(1) = sizes[root.id].height + 2 * Num(60)

C5_Witness ==
  /\ Returned
  /\ ResolvedRef(root) = "vertical"
  /\ Len(root.children) = 2
  /\ ~IsLeaf(root.children[1])
  /\ settings.tuning.siblingFactor = DefaultSiblingFactor
  /\ ChildHeights(root)[1] > sizes[root.children[1].id].height

(***************************************************************************)
(* C6: under a parent whose resolved direction is vertical, every child is *)
(* at x = (parent.x - parent.width/2) + child.width/2 + indent: its left   *)
(* edge is indent to the right of the parent's left edge, whatever its     *)
(* index and its subtree.                                                  *)
(***************************************************************************)
C6_VerticalIndent ==
  Returned =>
    \A p \in Parents : ResolvedRef(p) = "vertical" =>
      \A i \in 1..Len(p.children) :
        LET cp == Placed(p.children[i].id).position
            pp == Placed(p.id).position
            cw == sizes[p.children[i].id].width
        IN /\ 2 * cp.x = 2 * pp.x - sizes[p.id].width + cw + 2 * settings.tuning.indent
           /\ (2 * cp.x - cw) - (2 * pp.x - sizes[p.id].width) = 2 * settings.tuning.indent

C6_Witness ==
  /\ Returned
  /\ \E p \in Parents :
       /\ ResolvedRef(p) = "vertical"
       /\ p # root
       /\ Len(p.children) = 2
       /\ sizes[p.children[1].id].width # sizes[p.children[2].id].width
       /\ Placed(p.id).position.x # 0

\* the largest element of a non-empty set of numbers
MaxOf(S) == CHOOSE m \in S : \A v \in S : v <= m

RECURSIVE SumOver(_, _)
\* the sum of f[k] for k in S
SumOver(f, S) ==
  IF S = {} THEN 0
  ELSE LET k == CHOOSE j \in S : TRUE IN f[k] + SumOver(f, S \ {k})

RECURSIVE RefWidth(_)
\* the reference recursion for the width of a subtree
RefWidth(node) ==
  LET own == sizes[node.id].width
      kids == 1..Len(node.children)
      w == [k \in kids |-> RefWidth(node.children[k])]
  IN IF kids = {} THEN own
     ELSE IF ResolvedRef(node) = "horizontal"
       THEN MaxOf({own, SumOver(w, kids) + (Cardinality(kids) - 1) * settings.gap.x})
     ELSE own + settings.gap.x
            + ExactDiv(settings.tuning.compression[1] * MaxOf({w[k] : k \in kids}),
                       settings.tuning.compression[2])

RECURSIVE RefHeight(_)
\* the reference recursion for the height of a subtree
RefHeight(node) ==
  LET own == sizes[node.id].height
      kids == 1..Len(node.children)
      h == [k \in kids |-> RefHeight(node.children[k])]
  IN IF kids = {} THEN own
     ELSE IF ResolvedRef(node) = "horizontal"
       THEN own + settings.gap.y + MaxOf({h[k] : k \in kids})
     ELSE MaxOf({own, SumOver(h, kids) + (Cardinality(kids) - 1) * settings.gap.y})

(***************************************************************************)
(* C7: measureWidth(node) is the reference recursion: a leaf's own width;  *)
(* horizontal: max(own width, sum of the children's measured widths +      *)
(* (childCount-1)*gap.x); vertical: own width + gap.x + compression * the  *)
(* largest of the children's measured widths.                              *)
(***************************************************************************)
C7_MeasureWidth ==
  Returned =>
    \A n \in TreeNodes(root) : measureWidth(settings, sizes, n) = RefWidth(n)

C7_Witness ==
  /\ Returned
  /\ \E p, q \in Parents :
       /\ ResolvedRef(p) = "vertical"
       /\ ~IsLeaf(p.children[1])
       /\ ResolvedRef(q) = "horizontal"
       /\ measureWidth(settings, sizes, q) > sizes[q.id].width

(***************************************************************************)
(* C8: measureHeight(node) is the reference recursion: a leaf's own        *)
(* height; horizontal: own height + gap.y + the largest of the children's  *)
(* measured heights; vertical: max(own height, sum of the children's       *)
(* measured heights + (childCount-1)*gap.y).                               *)
(***************************************************************************)
C8_MeasureHeight ==
  Returned =>
    \A n \in TreeNodes(root) : measureHeight(settings, sizes, n) = RefHeight(n)

C8_Witness ==
  /\ Returned
  /\ \E p, q \in Parents :
       /\ ResolvedRef(p) = "vertical"
       /\ Len(p.children) = 2
       /\ measureHeight(settings, sizes, p) > sizes[p.id].height
       /\ ResolvedRef(q) = "horizontal"
       /\ q \in {p.children[k] : k \in 1..Len(p.children)}

RECURSIVE WithDirection(_, _, _)
\* the same tree with the direction field of node id set to d
WithDirection(node, id, d) ==
  [node EXCEPT !.direction = IF node.id = id THEN d ELSE @,
               !.children = [k \in 1..Len(node.children) |->
                               WithDirection(node.children[k], id, d)]]

\* where the placer puts node id when compute is given the tree alt
PositionIn(alt, id) ==
  LET nodes == placeNodes(settings, sizes, alt, 0, [x |-> 0, y |-> 0])
  IN (CHOOSE q \in {nodes[k] : k \in 1..Len(nodes)} : q.data.id = id).position

ProperAncestors(v) == {a \in TreeNodes(root) : a # v /\ v \in TreeNodes(a)}

\* the children of every parent are placed by the rule of the parent's own
\* direction field when it has one, and of the config default otherwise
ChildrenFollowOwnOrDefault ==
  \A p \in Parents : \A i \in 1..Len(p.children) :
    Placed(p.children[i].id).position =
      IF ResolvedRef(p) = "vertical"
        THEN verticalAnchor(settings, Placed(p.id).position, sizes[p.id],
                            sizes[p.children[i].id], i - 1, ChildHeights(p))
        ELSE horizontalAnchor(settings, Placed(p.id).position, sizes[p.id],
                              sizes[p.children[i].id], i - 1, ChildWidths(p))

(***************************************************************************)
(* C9 as stated: the children of a node are laid out in the node's own     *)
(* direction when it has one and in the config default otherwise, and a    *)
(* node's own direction field has no effect on that node's own position.   *)
(***************************************************************************)
C9_OwnDirectionNeverMovesNode ==
  Returned =>
    /\ ChildrenFollowOwnOrDefault
    /\ \A v \in TreeNodes(root) : \A d \in Directions \ {v.direction} :
         PositionIn(WithDirection(root, v.id, d), v.id) = Placed(v.id).position

(***************************************************************************)
(* C9 as amended: the children of a node are laid out in the node's own    *)
(* direction when it has one and in the config default otherwise, never in *)
(* an ancestor's; a node's own direction field has no effect on that       *)
(* node's own position when the node has no children or every proper       *)
(* ancestor of it resolves to horizontal (the root included).  Under a     *)
(* vertical ancestor the position can change, because it is derived from   *)
(* a measured subtree height that depends on the node's own direction.     *)
(***************************************************************************)
C9_DirectionResolution ==
  Returned =>
    /\ ChildrenFollowOwnOrDefault
    /\ \A v \in TreeNodes(root) :
         (IsLeaf(v) \/ \A a \in ProperAncestors(v) : ResolvedRef(a) = "horizontal")
           => \A d \in Directions \ {v.direction} :
                PositionIn(WithDirection(root, v.id, d), v.id) = Placed(v.id).position

C9_Witness ==
  /\ Returned
  /\ \E p \in Parents :
       /\ p # root
       /\ ~IsLeaf(p.children[1])
       /\ p.direction = Some("vertical")
       /\ settings.direction = "horizontal"
       /\ root.direction = Undefined
       /\ p.children[1].direction = Undefined
       /\ Placed(p.children[1].id).position.x # 0

RECURSIVE Preorder(_)
\* the nodes of a tree, each before its children, the children in list order,
\* a child's whole subtree before the next sibling
Preorder(node) ==
  IF Len(node.children) = 0 THEN <<node>>
  ELSE <<node>> \o Concat([k \in 1..Len(node.children) |-> Preorder(node.children[k])])

\* the index of element e in a sequence that holds it once
IndexOf(seq, e) == CHOOSE k \in 1..Len(seq) : seq[k] = e

\* the index of child c in the children list of p
ChildIndex(p, c) == CHOOSE k \in 1..Len(p.children) : p.children[k] = c

(***************************************************************************)
(* C10: the edges returned by compute are exactly the (parent, child)      *)
(* pairs of the tree, one edge each and no other edge (n-1 edges for n     *)
(* nodes), the source being the parent and the target its direct child;    *)
(* they are ordered by the preorder position of the parent, and by the     *)
(* child-list order within one parent.                                     *)
(***************************************************************************)
C10_EdgesAreTreePairs ==
  Returned =>
    LET E == ret.edges
        pre == Preorder(root)
    IN /\ Len(E) = Cardinality(TreeNodes(root)) - 1
       /\ {<<E[k].source, E[k].target>> : k \in 1..Len(E)}
            = UNION {{<<p, p.children[c]>> : c \in 1..Len(p.children)} : p \in Parents}
       /\ \A j, k \in 1..Len(E) :
            j < k =>
              \/ IndexOf(pre, E[j].source) < IndexOf(pre, E[k].source)
              \/ /\ E[j].source = E[k].source
                 /\ ChildIndex(E[j].source, E[j].target)
                      < ChildIndex(E[k].source, E[k].target)

\* a parent deep in the first branch precedes, in preorder, a parent that is
\* nearer to the root in a later branch
C10_Witness ==
  /\ Returned
  /\ \E j, k \in 1..Len(ret.edges) :
       /\ j < k
       /\ Placed(ret.edges[j].source.id).depth > Placed(ret.edges[k].source.id).depth
  /\ \E p \in Parents : Len(p.children) = 2

(***************************************************************************)
(* The edges of the latest regenerateEdges call, and the geometry of the   *)
(* pair an edge joins: the centres the two nodes have in the list given    *)
(* to the call and their registered sizes.                                 *)
(***************************************************************************)
Regenerated == ret.kind = "edges"

EdgeIndexes == 1..Len(ret.edges)

ParentCentre(e) == PositionMapGet(arg, e.source.id).position

ChildCentre(e) == PositionMapGet(arg, e.target.id).position

ParentSize(e) == sizes[e.source.id]

ChildSize(e) == sizes[e.target.id]

Dx(e) == ChildCentre(e).x - ParentCentre(e).x

Dy(e) == ChildCentre(e).y - ParentCentre(e).y

\* |dy| > |dx| / 2
PrimarilyVertical(e) == 2 * Abs(Dy(e)) > Abs(Dx(e))

(***************************************************************************)
(* C11: for a parent at centre (px,py) and a child at centre (cx,cy) with  *)
(* |dy| > |dx|/2 and dy > 0 the waypoints of the edge are exactly          *)
(* (px, parentBottom), (px, midY), (cx, midY), (cx, childTop), where       *)
(* parentBottom = py + parentHeight/2, childTop = cy - childHeight/2 and   *)
(* midY = parentBottom + (childTop - parentBottom)/2.                      *)
(***************************************************************************)
C11_VerticalChildBelow ==
  Regenerated =>
    \A k \in EdgeIndexes :
      LET e == ret.edges[k]
          p == ParentCentre(e)
          c == ChildCentre(e)
          w == e.waypoints
      IN (PrimarilyVertical(e) /\ Dy(e) > 0) =>
           /\ Len(w) = 4
           /\ w[1].x = p.x /\ 2 * w[1].y = 2 * p.y + ParentSize(e).height
           /\ w[2].x = p.x
           /\ 4 * w[2].y = (2 * p.y + ParentSize(e).height) + (2 * c.y - ChildSize(e).height)
           /\ w[3].x = c.x /\ w[3].y = w[2].y
           /\ w[4].x = c.x /\ 2 * w[4].y = 2 * c.y - ChildSize(e).height

C11_Witness ==
  /\ Regenerated
  /\ \E k \in EdgeIndexes :
       LET e == ret.edges[k]
       IN /\ PrimarilyVertical(e) /\ Dy(e) > 0 /\ Dx(e) # 0
          /\ ParentSize(e) # ChildSize(e)

(***************************************************************************)
(* C12: for a pair that is not primarily vertical (|dy| <= |dx|/2) the     *)
(* waypoints are, when dx > 0, exactly (parentRight, py), (midX, py),      *)
(* (midX, cy), (childLeft, cy) with midX = parentRight + (childLeft -      *)
(* parentRight)/2, and when dx < 0 the mirror (parentLeft, py), (midX,     *)
(* py), (midX, cy), (childRight, cy) with midX = parentLeft + (childRight  *)
(* - parentLeft)/2.                                                        *)
(***************************************************************************)
C12_HorizontalRoutes ==
  Regenerated =>
    \A k \in EdgeIndexes :
      LET e == ret.edges[k]
          p == ParentCentre(e)
          c == ChildCentre(e)
          w == e.waypoints
      IN /\ (~PrimarilyVertical(e) /\ Dx(e) > 0) =>
              /\ Len(w) = 4
              /\ 2 * w[1].x = 2 * p.x + ParentSize(e).width /\ w[1].y = p.y
              /\ 4 * w[2].x = (2 * p.x + ParentSize(e).width) + (2 * c.x - ChildSize(e).width)
              /\ w[2].y = p.y
              /\ w[3].x = w[2].x /\ w[3].y = c.y
              /\ 2 * w[4].x = 2 * c.x - ChildSize(e).width /\ w[4].y = c.y
         /\ (~PrimarilyVertical(e) /\ Dx(e) < 0) =>
              /\ Len(w) = 4
              /\ 2 * w[1].x = 2 * p.x - ParentSize(e).width /\ w[1].y = p.y
              /\ 4 * w[2].x = (2 * p.x - ParentSize(e).width) + (2 * c.x + ChildSize(e).width)
              /\ w[2].y = p.y
              /\ w[3].x = w[2].x /\ w[3].y = c.y
              /\ 2 * w[4].x = 2 * c.x + ChildSize(e).width /\ w[4].y = c.y

\* one edge to the right and one to the left, the second with |dy| = |dx|/2
C12_Witness ==
  /\ Regenerated
  /\ \E j, k \in EdgeIndexes :
       /\ ~PrimarilyVertical(ret.edges[j]) /\ Dx(ret.edges[j]) > 0
       /\ Dy(ret.edges[j]) # 0
       /\ Dx(ret.edges[k]) < 0
       /\ 2 * Abs(Dy(ret.edges[k])) = Abs(Dx(ret.edges[k]))

(***************************************************************************)
(* C13: for a pair classified as primarily vertical, moving the child's    *)
(* centre (cx,cy) to its reflection (cx, 2*py - cy) across the horizontal  *)
(* line through the parent's centre, sizes unchanged, gives an edge whose  *)
(* waypoints are, point by point, the reflections across that line of the  *)
(* original waypoints.                                                     *)
(***************************************************************************)
\* the list with the entry of node id moved to its reflection across y = py
ReflectedChild(placed, id, py) ==
  [k \in 1..Len(placed) |->
     IF placed[k].data.id = id
       THEN [placed[k] EXCEPT !.position.y = 2 * py - @]
       ELSE placed[k]]

\* the waypoints regenerateEdges gives the pair (source, target) for a list
WaypointsIn(st, placed, source, target) ==
  LET E == regenerateEdges(st, sizes, placed).edges
  IN (CHOOSE e \in {E[k] : k \in 1..Len(E)} :
        e.source.id = source.id /\ e.target.id = target.id).waypoints

C13_ReflectionMirrorsWaypoints ==
  Regenerated =>
    \A k \in EdgeIndexes :
      LET e == ret.edges[k]
          py == ParentCentre(e).y
          w == e.waypoints
          v == WaypointsIn(settings, ReflectedChild(arg, e.target.id, py),
                           e.source, e.target)
      IN PrimarilyVertical(e) =>
           /\ Len(v) = Len(w)
           /\ \A i \in 1..Len(w) : v[i].x = w[i].x /\ v[i].y = 2 * py - w[i].y

C13_Witness ==
  /\ Regenerated
  /\ \E j, k \in EdgeIndexes :
       /\ PrimarilyVertical(ret.edges[j]) /\ Dy(ret.edges[j]) > 0
       /\ Dx(ret.edges[j]) # 0
       /\ PrimarilyVertical(ret.edges[k]) /\ Dy(ret.edges[k]) < 0
       /\ ParentSize(ret.edges[k]) # ChildSize(ret.edges[k])

(***************************************************************************)
(* C14: the waypoints of an edge depend only on the positions and the      *)
(* registered sizes of its parent and child: with the same list positions  *)
(* and the same registry, giving the parent of an edge another direction   *)
(* field or the instance another default direction leaves the waypoints    *)
(* of every edge as they were.                                             *)
(***************************************************************************)
\* the list with the direction field of node id set to d
DirectedList(placed, id, d) ==
  [k \in 1..Len(placed) |->
     [placed[k] EXCEPT !.data = WithDirection(@, id, d)]]

ListedPairs ==
  UNION {{<<arg[k].data, arg[k].data.children[c]>> : c \in 1..Len(arg[k].data.children)} :
           k \in 1..Len(arg)}

Listed(node) == \E k \in 1..Len(arg) : arg[k].data.id = node.id

BrokenPair(pair) ==
  \/ ~Listed(pair[2])
  \/ pair[1].id \notin DOMAIN sizes
  \/ pair[2].id \notin DOMAIN sizes

C19_BrokenPairRaises ==
  (ret.kind # "none" /\ \E pair \in ListedPairs : BrokenPair(pair)) =>
    /\ ret.kind = "error"
    /\ "edges" \notin DOMAIN ret

\* one pair of the list is sound, so that an edge could have been returned,
\* and its sibling pair has no entry for the child
C19_Witness ==
  /\ ret.kind = "error"
  /\ \E pair, other \in ListedPairs :
       /\ ~BrokenPair(pair)
       /\ ~Listed(other[2])
       /\ other[1].id \in DOMAIN sizes /\ other[2].id \in DOMAIN sizes

(***************************************************************************)
(* The path of the latest buildEdgePath call read back by triples: the     *)
(* triple at i is (arg[i], arg[i+1], arg[i+2]), its middle point the       *)
(* corner.  Every triple contributes one L segment, and a Q segment after  *)
(* it when the corner was rounded; the last waypoint contributes the last  *)
(* L segment.                                                              *)
(***************************************************************************)
Built == ret.kind = "path"

Triples == 1..(Len(arg) - 2)

\* the index in the path of the L segment of the triple at i
RECURSIVE Slot(_)
Slot(i) ==
  IF i = 1 THEN 2
  ELSE LET s == Slot(i - 1)
       IN IF s + 1 <= Len(ret.d) /\ ret.d[s + 1].op = "Q" THEN s + 2 ELSE s + 1

RoundedAt(i) == Slot(i) + 1 <= Len(ret.d) /\ ret.d[Slot(i) + 1].op = "Q"

\* where the rounding of the corner of the triple at i begins and ends
EntryAt(i) == [x |-> ret.d[Slot(i)].nums[1], y |-> ret.d[Slot(i)].nums[2]]

ControlAt(i) == [x |-> ret.d[Slot(i) + 1].nums[1], y |-> ret.d[Slot(i) + 1].nums[2]]

ExitAt(i) == [x |-> ret.d[Slot(i) + 1].nums[3], y |-> ret.d[Slot(i) + 1].nums[4]]

Horizontal(a, b) == a.y = b.y /\ a.x # b.x

Vertical(a, b) == a.x = b.x /\ a.y # b.y

\* the length of a horizontal or vertical segment
SegmentLength(a, b) == Abs(b.x - a.x) + Abs(b.y - a.y)

\* q lies on the horizontal or vertical segment from a to corner, at the
\* distance r from corner
OnSegmentAt(q, a, corner, r) ==
  /\ r <= SegmentLength(a, corner)
  /\ \/ Horizontal(a, corner) /\ q.y = corner.y /\ Abs(corner.x - q.x) = r
        /\ Abs(q.x - a.x) = SegmentLength(a, corner) - r
     \/ Vertical(a, corner) /\ q.x = corner.x /\ Abs(corner.y - q.y) = r
        /\ Abs(q.y - a.y) = SegmentLength(a, corner) - r

(***************************************************************************)
(* C15: for every triple (prev, corner, next) whose corner the edge path   *)
(* builder rounds, the entry point lies on the incoming segment and the    *)
(* exit point on the outgoing segment, both at the same distance r from    *)
(* the corner, r = min(32, half the length of the shorter of the two       *)
(* segments).                                                              *)
(***************************************************************************)
C15_OneRadiusFromShorterSegment ==
  Built =>
    \A i \in Triples :
      RoundedAt(i) =>
        LET prev == arg[i]
            corner == arg[i + 1]
            next == arg[i + 2]
            r == Min2(Px(BEND_RADIUS),
                      ExactDiv(Min2(SegmentLength(prev, corner),
                                    SegmentLength(corner, next)), 2))
        IN /\ OnSegmentAt(EntryAt(i), prev, corner, r)
           /\ OnSegmentAt(ExitAt(i), next, corner, r)

(***************************************************************************)
(* C16: for every corner triple whose two segments are both at least 64    *)
(* long, the path holds a line-to to the entry point followed by one       *)
(* quadratic curve whose control point is the corner itself and whose end  *)
(* point is the exit point, the entry point lying on the incoming segment  *)
(* 32 before the corner and the exit point on the outgoing segment 32      *)
(* after it.                                                               *)
(***************************************************************************)
RightAngle(a, b, c) ==
  \/ Horizontal(a, b) /\ Vertical(b, c)
  \/ Vertical(a, b) /\ Horizontal(b, c)

C16_LongSegmentsFullRadius ==
  Built =>
    \A i \in Triples :
      LET prev == arg[i]
          corner == arg[i + 1]
          next == arg[i + 2]
      IN (/\ RightAngle(prev, corner, next)
          /\ SegmentLength(prev, corner) >= Px(2 * BEND_RADIUS)
          /\ SegmentLength(corner, next) >= Px(2 * BEND_RADIUS)) =>
           /\ ret.d[Slot(i)].op = "L"
           /\ RoundedAt(i)
           /\ ControlAt(i) = corner
           /\ OnSegmentAt(EntryAt(i), prev, corner, Px(BEND_RADIUS))
           /\ OnSegmentAt(ExitAt(i), next, corner, Px(BEND_RADIUS))

\* two corners in a row, a segment exactly 64 long among their segments
C16_Witness ==
  /\ Built /\ Len(arg) = 4
  /\ \A i \in Triples :
       /\ RightAngle(arg[i], arg[i + 1], arg[i + 2])
       /\ SegmentLength(arg[i], arg[i + 1]) >= Px(2 * BEND_RADIUS)
       /\ SegmentLength(arg[i + 1], arg[i + 2]) >= Px(2 * BEND_RADIUS)
  /\ SegmentLength(arg[2], arg[3]) = Px(2 * BEND_RADIUS)

(***************************************************************************)
(* C17: for three or more waypoints the builder rounds the middle point    *)
(* of a triple exactly when one of its two segments is horizontal and the  *)
(* other vertical, both of non-zero length; for every other triple it      *)
(* emits a line-to to the middle point; the last waypoint is reached by a  *)
(* line-to; two waypoints give a move-to and one line-to.                  *)
(***************************************************************************)
C17_RoundsRightAnglesOnly ==
  Built =>
    /\ Len(arg) >= 3 =>
         /\ ret.d[1] = Segment(moveTo(arg[1]))
         /\ \A i \in Triples :
              /\ ret.d[Slot(i)].op = "L"
              /\ RoundedAt(i) <=> RightAngle(arg[i], arg[i + 1], arg[i + 2])
              /\ ~RoundedAt(i) => ret.d[Slot(i)] = Segment(lineTo(arg[i + 1]))
         /\ Slot(Len(arg) - 1) = Len(ret.d)
         /\ ret.d[Len(ret.d)] = Segment(lineTo(arg[Len(arg)]))
    /\ Len(arg) = 2 =>
         ret.d = <<Segment(moveTo(arg[1])), Segment(lineTo(arg[2]))>>

\* a path through a rounded corner, a straight stretch and a diagonal turn
C17_Witness ==
  /\ Built /\ Len(arg) >= 4
  /\ \E i, j \in Triples :
       /\ RoundedAt(i)
       /\ ~RoundedAt(j)
       /\ arg[j].x # arg[j + 1].x /\ arg[j].y # arg[j + 1].y

(***************************************************************************)
(* C18: compilePath raises an error when the list of commands is empty     *)
(* and when its first command is not a move; for every other list, that    *)
(* is every non-empty list that begins with a move, it raises nothing and  *)
(* returns a path, one segment for each command.                           *)
(***************************************************************************)
Compiled == ret.kind # "none"

BeginsWithMove == Len(arg) > 0 /\ arg[1].cmd = "M"

C18_CompileErrors ==
  Compiled =>
    /\ ~BeginsWithMove => ret.kind = "error" /\ "d" \notin DOMAIN ret
    /\ BeginsWithMove => ret.kind = "path" /\ Len(ret.d) = Len(arg)

\* a list refused for its first command although a move comes later in it
C18_Witness ==
  /\ ret.kind = "error"
  /\ Len(arg) > 1 /\ arg[1].cmd = "Q"
  /\ \E k \in 2..Len(arg) : arg[k].cmd = "M"

(***************************************************************************)
(* C20: compute keeps no cache and changes nothing.  A compute call that   *)
(* returns a layout leaves the Size Registry as it was; when the call      *)
(* before it was a compute call too, the two results are the same nodes    *)
(* and edges; and whatever was registered or overwritten before the call,  *)
(* the result is the one a fresh instance with the same settings returns   *)
(* once every id has been registered with its final size.                  *)
(***************************************************************************)
\* registerSize(ids[k], final[ids[k]]) for every k from k on
RECURSIVE RegisterAll(_, _, _, _)
RegisterAll(sz, final, ids, k) ==
  IF k > Len(ids) THEN sz
  ELSE RegisterAll(MapSet(sz, ids[k], final[ids[k]]), final, ids, k + 1)

\* the registry of a new instance after one registerSize call per id
FreshRegistry(final) ==
  RegisterAll([k \in {} |-> 0], final, SortedSeq(DOMAIN final), 1)

Shortfall == Cardinality({id \in TreeIds(root) : id \notin DOMAIN sizes})

C21_ErrorNamesShortfall ==
  (ret.kind = "error" /\ ~AllSized) => ret.have = Shortfall

(***************************************************************************)
(* C21: when compute is called while isReady is false, the number its      *)
(* error names is the number of sizes the registry holds, ids that are     *)
(* not in the tree counted too.                                            *)
(***************************************************************************)
C21_ErrorNamesRegistrySize ==
  (ret.kind = "error" /\ ~AllSized) =>
    /\ ret.message = "Missing sizes for some nodes. Have"
    /\ ret.have = Cardinality(DOMAIN sizes)

\* one node of the tree lacks a size and three sizes are registered, one of
\* them for an id outside the tree
C21_Witness ==
  /\ ret.kind = "error"
  /\ Shortfall = 1
  /\ Cardinality(DOMAIN sizes) = 3
  /\ \E id \in DOMAIN sizes : id \notin TreeIds(root)

(***************************************************************************)
(* C22: registerSize is an idempotent upsert.  Every call registerSize(id, *)
(* d) leaves the registry mapping id to d, so that after any sequence of   *)
(* calls each id maps to the dimensions of its most recent call; it adds   *)
(* no entry but that of id and neither changes nor removes the entry of    *)
(* another id; and the same call made again leaves the registry as the     *)
(* first call left it.                                                     *)
(***************************************************************************)
C22_RegisterSizeUpserts ==
  [][ret'.kind = "void" =>
       \A id \in Ids, d \in Dims :
         RegisterSize(id, d) =>
           /\ DOMAIN sizes' = (DOMAIN sizes) \cup {id}
           /\ sizes'[id] = d
           /\ \A other \in (DOMAIN sizes) \ {id} : sizes'[other] = sizes[other]
           /\ MapSet(sizes', id, d) = sizes']_vars

\* a registry of three ids that does not hold the same dimensions for all
C22_Witness ==
  /\ ret.kind = "void"
  /\ Cardinality(DOMAIN sizes) = 3
  /\ \E a, b \in DOMAIN sizes : sizes[a] # sizes[b]

(***************************************************************************)
(* C23: traverse(root) lists every node of the tree exactly once in        *)
(* depth-first preorder: the root first, the first child of a node right   *)
(* after the node, and every later child right after the whole subtree of  *)
(* the child before it.  The nodes list of compute(root) is in the same    *)
(* order, and getSubtreeIds(node) is the sequence of the ids of            *)
(* traverse(node).                                                         *)
(***************************************************************************)
SubtreeSize(node) == Cardinality(TreeNodes(node))

IsPreorderOf(t, tree) ==
  /\ Len(t) = SubtreeSize(tree)
  /\ {t[k] : k \in 1..Len(t)} = TreeNodes(tree)
  /\ t[1] = tree
  /\ \A i \in 1..Len(t) :
       \A k \in 1..Len(t[i].children) :
         LET before == SumSeq([j \in 1..(k - 1) |-> SubtreeSize(t[i].children[j])])
         IN /\ i + 1 + before <= Len(t)
            /\ t[i + 1 + before] = t[i].children[k]

C23_TraverseIsPreorder ==
  /\ IsPreorderOf(traverse(root), root)
  /\ Returned => [k \in 1..Len(ret.nodes) |-> ret.nodes[k].data] = traverse(root)
  /\ \A n \in TreeNodes(root) :
       getSubtreeIds(n) = [k \in 1..Len(traverse(n)) |-> traverse(n)[k].id]

\* a layout of a tree whose second child comes after a grandchild
C23_Witness ==
  /\ Returned
  /\ Len(root.children) >= 2
  /\ Len(root.children[1].children) >= 1
  /\ ret.nodes[3].data = root.children[1].children[1]

(***************************************************************************)
(* C25 as stated: during one compute call measureWidth is invoked at most  *)
(* once on any node and measureHeight is invoked at most once on any       *)
(* node.                                                                   *)
(***************************************************************************)
\* how often the latest compute invoked fn on the node id
Invocations(fn, id) ==
  LET calls == placeNodesCalls(settings, root)
  IN Cardinality({k \in 1..Len(calls) : calls[k] = [fn |-> fn, id |-> id]})

C25_MeasuredAtMostOnce ==
  Returned =>
    \A id \in TreeIds(root) :
      /\ Invocations("measureWidth", id) <= 1
      /\ Invocations("measureHeight", id) <= 1

(***************************************************************************)
(* The bounding box of a placed node, doubled so that no half is taken:    *)
(* twice the coordinate of each of its four edges.                         *)
(***************************************************************************)
Left2(n) == 2 * Placed(n.id).position.x - sizes[n.id].width

Right2(n) == 2 * Placed(n.id).position.x + sizes[n.id].width

Top2(n) == 2 * Placed(n.id).position.y - sizes[n.id].height

Bottom2(n) == 2 * Placed(n.id).position.y + sizes[n.id].height

\* the two boxes share more than an edge
Overlap(a, b) ==
  /\ Left2(a) < Right2(b) /\ Left2(b) < Right2(a)
  /\ Top2(a) < Bottom2(b) /\ Top2(b) < Bottom2(a)

\* parents with the places k of two consecutive children
SiblingPairs ==
  UNION {{<<p.children[k], p.children[k + 1]>> : k \in 1..(Len(p.children) - 1)} :
           p \in Parents}

DefaultTuning ==
  settings.tuning = [indent |-> DefaultIndent, verticalShift |-> DefaultVerticalShift,
                     compression |-> DefaultCompression,
                     siblingFactor |-> DefaultSiblingFactor]

AllResolve(dir) == \A n \in TreeNodes(root) : resolveDirection(settings, n) = dir

(***************************************************************************)
(* C26 as stated: in a tree where every node resolves to vertical flow,    *)
(* with default tuning, for every two consecutive stacked siblings the     *)
(* box of every node in the subtree of the first lies entirely above the   *)
(* top edge of the second, and no two placed nodes' boxes overlap.         *)
(***************************************************************************)
C26_StackedSubtreesDoNotOverlap ==
  (Returned /\ AllResolve("vertical") /\ DefaultTuning) =>
    /\ \A pair \in SiblingPairs :
         \A n \in TreeNodes(pair[1]) : Bottom2(n) <= Top2(pair[2])
    /\ \A a, b \in TreeNodes(root) : a # b => ~Overlap(a, b)

(***************************************************************************)
(* C27: in a tree where every node resolves to horizontal flow, for every  *)
(* two consecutive siblings the right edge of every node in the subtree    *)
(* of the first is at least gap.x to the left of the left edge of every    *)
(* node in the subtree of the second.                                      *)
(***************************************************************************)
C27_SpreadSubtreesKeepTheGap ==
  (Returned /\ AllResolve("horizontal")) =>
    \A pair \in SiblingPairs :
      \A a \in TreeNodes(pair[1]), b \in TreeNodes(pair[2]) :
        Right2(a) + 2 * settings.gap.x <= Left2(b)

\* the first of two siblings has two children of its own, so its subtree is
\* wider than the sibling itself, and the nodes are not all of one size
C27_Witness ==
  /\ Returned /\ AllResolve("horizontal")
  /\ \E pair \in SiblingPairs : Len(pair[1].children) = 2
  /\ \E a, b \in TreeIds(root) : sizes[a].width # sizes[b].width
  /\ settings.gap.x > 0

(***************************************************************************)
(* C28: regenerateEdges routes again and does nothing else.  In the view,  *)
(* whose renders call regenerateEdges on the nodes of compute(data) with   *)
(* some positions replaced: the call returns one edge for each edge of     *)
(* compute(data), in the same order and between the same nodes; an edge    *)
(* neither of whose ends was given another position has the waypoints      *)
(* compute gave it, so that the list of compute itself gives back the      *)
(* edges of compute; every edge is routed between the positions of the     *)
(* list, and an edge both of whose ends moved by the same vector is the    *)
(* edge of compute moved by this vector; and the Size Registry holds what  *)
(* the view registered, the layout what compute returns.                   *)
(***************************************************************************)
\* the position compute gave a node
ComputedPosition(id) == PositionMapGet(view.layout.nodes, id).position

\* the position of a node in the list given to regenerateEdges
ListedPosition(id) == PositionMapGet(arg, id).position

Shifted(pos, by) == [x |-> pos.x + by.x, y |-> pos.y + by.y]

C28_RegenerateOnlyReroutes ==
  /\ Regenerated
  /\ sizes = [id \in TreeIds(root) |->
                nodeSize("uniform", CHOOSE n \in TreeNodes(root) : n.id = id)]
  /\ view.layout = compute(settings, sizes, root)
  /\ arg # <<>> =>
       /\ Len(ret.edges) = Len(view.layout.edges)
       /\ \A k \in EdgeIndexes :
            LET e == ret.edges[k]
                l == view.layout.edges[k]
                s == e.source.id
                t == e.target.id
                by == [x |-> ListedPosition(s).x - ComputedPosition(s).x,
                       y |-> ListedPosition(s).y - ComputedPosition(s).y]
            IN /\ e.source = l.source
               /\ e.target = l.target
               /\ e.waypoints =
                    computeEdgePath(ListedPosition(s),
                                    getBounds(ListedPosition(s), sizes[s]),
                                    ListedPosition(t),
                                    getBounds(ListedPosition(t), sizes[t]),
                                    resolveDirection(settings, e.source))
               /\ (ListedPosition(s) = ComputedPosition(s)
                   /\ ListedPosition(t) = ComputedPosition(t))
                    => e.waypoints = l.waypoints
               /\ ListedPosition(t) = Shifted(ComputedPosition(t), by)
                    => e.waypoints =
                         [i \in 1..Len(l.waypoints) |-> Shifted(l.waypoints[i], by)]

\* the view has routed again a list in which one end of an edge has another
\* position and both ends of another edge have the computed ones
C28_Witness ==
  /\ Regenerated /\ arg # <<>>
  /\ \E k, j \in EdgeIndexes :
       /\ ret.edges[k].waypoints # view.layout.edges[k].waypoints
       /\ ListedPosition(ret.edges[k].target.id)
            # ComputedPosition(ret.edges[k].target.id)
       /\ ListedPosition(ret.edges[j].source.id)
            = ComputedPosition(ret.edges[j].source.id)
       /\ ListedPosition(ret.edges[j].target.id)
            = ComputedPosition(ret.edges[j].target.id)
       /\ ret.edges[j].waypoints = view.layout.edges[j].waypoints

(***************************************************************************)
(* C29: when the drag of node N ends with the final delta d, the override  *)
(* of every affected node (N and its descendants in the mode "subtree", N  *)
(* alone in the mode "node") becomes the position the node had before the  *)
(* step, its override or else its computed position, plus d; no other      *)
(* override appears, disappears or changes; liveDrag is cleared; no step   *)
(* but the end of a drag changes an override; and no step of the view      *)
(* changes the layout.                                                     *)
(***************************************************************************)
\* the node of the tree with this id
NodeWithId(id) == CHOOSE n \in TreeNodes(root) : n.id = id

\* override ?? computed position, before the step
EffectivePosition(id) ==
  IF id \in DOMAIN view.internalOverrides
    THEN view.internalOverrides[id]
    ELSE ComputedPosition(id)

Affected(nodeId) ==
  IF view.props.dragMode = "subtree" THEN TreeIds(NodeWithId(nodeId)) ELSE {nodeId}

C29_DragEndShiftsAffectedOverrides ==
  [][/\ view'.layout = view.layout
     /\ view'.drags = view.drags => view'.internalOverrides = view.internalOverrides
     /\ view'.drags # view.drags =>
          \A nodeId \in TreeIds(root), d \in FinalDeltas :
            DragEnd(nodeId, d) =>
              /\ DOMAIN view'.internalOverrides
                   = (DOMAIN view.internalOverrides) \cup Affected(nodeId)
              /\ \A id \in Affected(nodeId) :
                   view'.internalOverrides[id] = Shifted(EffectivePosition(id), d)
              /\ \A id \in (DOMAIN view.internalOverrides) \ Affected(nodeId) :
                   view'.internalOverrides[id] = view.internalOverrides[id]
              /\ view'.liveDrag = Undefined]_vars

\* two drags have ended in the mode "subtree": a node that had an override
\* has been moved again, together with a node that had none
C29_Witness ==
  /\ view.drags = 2
  /\ view.props.dragMode = "subtree"
  /\ view.liveDrag = Undefined
  /\ Cardinality(DOMAIN view.internalOverrides) = 3
  /\ \E a, b \in DOMAIN view.internalOverrides :
       /\ \E d \in FinalDeltas :
            /\ view.internalOverrides[a] = Shifted(Shifted(ComputedPosition(a), d), d)
            /\ view.internalOverrides[b] = Shifted(ComputedPosition(b), d)

(***************************************************************************)
(* C30: of the callbacks a gesture delivers (a gesture begins with the     *)
(* pointer-down the component takes up): onDragStart comes at most once,   *)
(* and only with a pointer move 3 px or more from the press point on some  *)
(* axis; onDrag, onDragEnd and onDragCancel come only after onDragStart;   *)
(* at most one of onDragEnd and onDragCancel comes; and no onDrag comes    *)
(* after it.                                                               *)
(***************************************************************************)
Calls(fns) == {k \in 1..Len(ret.log) : ret.log[k].fn \in fns}

StartedOnceBeyondThreshold ==
  /\ Cardinality(Calls({"onDragStart"})) <= 1
  /\ \A k \in Calls({"onDragStart"}) :
       \/ Abs(ret.log[k].client[1].x - view.startPos.x) >= 3
       \/ Abs(ret.log[k].client[1].y - view.startPos.y) >= 3

OnlyAfterStart(fns) ==
  \A k \in Calls(fns) : \E j \in Calls({"onDragStart"}) : j < k

OneEnding == Cardinality(Calls({"onDragEnd", "onDragCancel"})) <= 1

NoDragAfterEnding ==
  \A k \in Calls({"onDrag"}) : \A j \in Calls({"onDragEnd", "onDragCancel"}) : k < j

C30_CallbackProtocol ==
  /\ StartedOnceBeyondThreshold
  /\ OnlyAfterStart({"onDrag", "onDragEnd", "onDragCancel"})
  /\ OneEnding
  /\ NoDragAfterEnding

(***************************************************************************)
(* C24: with minZoom <= initialZoom <= maxZoom, after every sequence of    *)
(* wheel, mouse and touch events and momentum frames the zoom of the view  *)
(* is a number from minZoom to maxZoom.                                    *)
(***************************************************************************)
C24_ZoomWithinBounds ==
  /\ view.zoom.kind = "finite"
  /\ view.minZoom <= view.zoom.value
  /\ view.zoom.value <= view.maxZoom

====
